---- MODULE Spec2Model ----

(***************************************************************************)
(* Model of the snow-report extraction engine of src/scrapers.py:          *)
(* the regular-expression strategies of parse_snow_report_generic, the     *)
(* per-resort orchestrator scrape_resort, the Vail specialisation and the  *)
(* batch runner.  Texts are strings; a character is a string of length 1.  *)
(***************************************************************************)
EXTENDS Integers, Sequences, FiniteSets, TLC

(***************************************************************************)
(* Strings: str.lower(), `sub in str`, int(str).                           *)
(***************************************************************************)
CharAt(s, i) == SubSeq(s, i, i)

UpperCase == "ABCDEFGHIJKLMNOPQRSTUVWXYZ"
LowerCase == "abcdefghijklmnopqrstuvwxyz"
Digits == "0123456789"

Digit == {CharAt(Digits, i) : i \in 1..Len(Digits)}
Space == {" ", "\n", "\t", "\r", "\f"}

LowerChar(c) ==
    IF \E i \in 1..Len(UpperCase) : CharAt(UpperCase, i) = c
    THEN CharAt(LowerCase, CHOOSE i \in 1..Len(UpperCase) : CharAt(UpperCase, i) = c)
    ELSE c

\* the string of F(c) for the characters c of s[lo..hi], in order
RECURSIVE MapChars(_, _, _, _)
MapChars(F(_), s, lo, hi) ==
    IF lo > hi THEN ""
    ELSE IF lo = hi THEN F(CharAt(s, lo))
    ELSE MapChars(F, s, lo, (lo + hi) \div 2) \o MapChars(F, s, (lo + hi) \div 2 + 1, hi)

\* str.lower()
Lower(s) == MapChars(LowerChar, s, 1, Len(s))

\* s.replace(c, '')
Remove(s, c) == LET Drop(x) == IF x = c THEN "" ELSE x IN MapChars(Drop, s, 1, Len(s))

\* s[:n]
Prefix(s, n) == SubSeq(s, 1, IF Len(s) < n THEN Len(s) ELSE n)

\* sub in s
Contains(s, sub) == \E i \in 1..(Len(s) - Len(sub) + 1) : SubSeq(s, i, i + Len(sub) - 1) = sub

DigitVal(c) == (CHOOSE i \in 1..Len(Digits) : CharAt(Digits, i) = c) - 1

RECURSIVE IntFrom(_, _, _)
IntFrom(s, i, acc) == IF i > Len(s) THEN acc ELSE IntFrom(s, i + 1, acc * 10 + DigitVal(CharAt(s, i)))

\* int(s) for an optional minus sign followed by digits
ToInt(s) == IF Len(s) > 0 /\ CharAt(s, 1) = "-" THEN 0 - IntFrom(s, 2, 0) ELSE IntFrom(s, 1, 0)

(***************************************************************************)
(* Regular expressions of Python's re module, as syntax trees, and the     *)
(* backtracking matcher: alternatives in order, greedy repetition tries    *)
(* one more first, lazy repetition tries to stop first.                    *)
(***************************************************************************)
\* A regular expression is the sequence of the nodes to match one after the
\* other: concatenation is \o.  Rep repeats a single character.
Ch(S) == <<[t |-> "ch", set |-> S]>>
Dot == <<[t |-> "any"]>>
Eos == <<[t |-> "eos"]>>
Lit(str) == <<[t |-> "lit", str |-> str]>>
Alt(rs) == <<[t |-> "alt", rs |-> rs]>>
Opt(r) == <<[t |-> "opt", r |-> r]>>
Rep(r, lo, greedy) == <<[t |-> "rep", r |-> r[1], lo |-> lo, greedy |-> greedy]>>
GrpStart(n) == <<[t |-> "gs", n |-> n]>>
GrpEnd(n) == <<[t |-> "ge", n |-> n]>>
Grp(n, r) == GrpStart(n) \o r \o GrpEnd(n)

Plus(r) == Rep(r, 1, TRUE)
Star(r) == Rep(r, 0, TRUE)
LazyStar(r) == Rep(r, 0, FALSE)
Words(ws) == Alt([i \in 1..Len(ws) |-> Lit(ws[i])])

NoGroups == <<0, 0, 0, 0>>
NoMatch == <<FALSE, 0, 0, NoGroups>>

\* F(v), with v evaluated once
Let(v, F(_)) == CHOOSE r \in {F(x) : x \in {v}} : TRUE

\* the first (the last) j of lo..hi with P(j), or hi + 1 (lo - 1) when there
\* is none
RECURSIVE FirstIn(_, _, _)
FirstIn(P(_), lo, hi) ==
    IF lo > hi THEN hi + 1
    ELSE IF P(lo) THEN lo
    ELSE IF lo = hi THEN hi + 1
    ELSE LET mid == (lo + 1 + hi) \div 2
             left == FirstIn(P, lo + 1, mid)
         IN IF left <= mid THEN left ELSE FirstIn(P, mid + 1, hi)

RECURSIVE LastIn(_, _, _)
LastIn(P(_), lo, hi) ==
    IF lo > hi THEN lo - 1
    ELSE IF P(hi) THEN hi
    ELSE IF lo = hi THEN lo - 1
    ELSE LET mid == (lo + hi - 1) \div 2
             right == LastIn(P, mid + 1, hi - 1)
         IN IF right > mid THEN right ELSE LastIn(P, lo, mid)

\* whether the one-character node r takes the character c
Takes(r, c) == IF r.t = "ch" THEN c \in r.set ELSE c # "\n"

\* MatchHere(stack, s, i, g): match the nodes of stack, in order, against s
\* from position i; <<TRUE, 0, end, groups>> for the first way that works:
\* alternatives in order, a greedy repetition as long as the rest allows, a
\* lazy one as short as the rest allows.
RECURSIVE MatchHere(_, _, _, _)
MatchHere(stack, s, i, g) ==
    IF stack = <<>> THEN <<TRUE, 0, i, g>>
    ELSE LET r == Head(stack)
             rest == Tail(stack)
         IN CASE r.t = "lit" ->
                   IF i + Len(r.str) - 1 <= Len(s) /\ SubSeq(s, i, i + Len(r.str) - 1) = r.str
                   THEN MatchHere(rest, s, i + Len(r.str), g) ELSE NoMatch
              [] r.t \in {"ch", "any"} ->
                   IF i <= Len(s) /\ Takes(r, CharAt(s, i))
                   THEN MatchHere(rest, s, i + 1, g) ELSE NoMatch
              [] r.t = "gs" -> MatchHere(rest, s, i, [g EXCEPT ![2 * r.n - 1] = i])
              [] r.t = "ge" -> MatchHere(rest, s, i, [g EXCEPT ![2 * r.n] = i])
              [] r.t = "alt" ->
                   LET Works(k) == MatchHere(r.rs[k] \o rest, s, i, g)[1]
                       Take(k) == IF k > Len(r.rs) THEN NoMatch ELSE MatchHere(r.rs[k] \o rest, s, i, g)
                   IN Let(FirstIn(Works, 1, Len(r.rs)), Take)
              [] r.t = "opt" ->
                   Let(MatchHere(r.r \o rest, s, i, g),
                       LAMBDA m : IF m[1] THEN m ELSE MatchHere(rest, s, i, g))
              [] r.t = "rep" ->
                   \* the run of characters the repetition can take ends
                   \* before `run`
                   LET Stops(j) == ~Takes(r.r, CharAt(s, j))
                       Fits(e) == MatchHere(rest, s, e, g)[1]
                       EndIn(run) == IF r.greedy THEN LastIn(Fits, i + r.lo, run)
                                                 ELSE FirstIn(Fits, i + r.lo, run)
                       To(run) == Let(EndIn(run),
                                      LAMBDA end : IF end < i + r.lo \/ end > run THEN NoMatch
                                                   ELSE MatchHere(rest, s, end, g))
                   IN Let(FirstIn(Stops, i, Len(s)), To)
              [] r.t = "eos" ->
                   IF i > Len(s) \/ (i = Len(s) /\ CharAt(s, i) = "\n")
                   THEN MatchHere(rest, s, i, g) ELSE NoMatch

\* whether r matches s at position i, and the match at position start
StartsAt(r, s, i) == MatchHere(r, s, i, NoGroups)[1]

MatchAt(r, s, start) ==
    IF start > Len(s) + 1 THEN NoMatch
    ELSE Let(MatchHere(r, s, start, NoGroups), LAMBDA m : <<TRUE, start, m[3], m[4]>>)

\* re.search(r, s) from position `from`: the leftmost match, <<ok, start, end, groups>>
SearchFrom(r, s, from) ==
    Let(FirstIn(LAMBDA i : StartsAt(r, s, i), from, Len(s) + 1), LAMBDA start : MatchAt(r, s, start))

Search(r, s) == SearchFrom(r, s, 1)

\* match.group(0) and match.group(n)
Group0(s, m) == SubSeq(s, m[2], m[3] - 1)
GroupN(s, m, n) == SubSeq(s, m[4][2 * n - 1], m[4][2 * n] - 1)

\* re.finditer(r, s): the successive non-overlapping matches, left to right
RECURSIVE FindIterFrom(_, _, _)
FindIterFrom(r, s, from) ==
    Let(SearchFrom(r, s, from),
        LAMBDA m : IF ~m[1] THEN <<>>
                   ELSE <<m>> \o FindIterFrom(r, s, IF m[3] > m[2] THEN m[3] ELSE m[3] + 1))

FindIter(r, s) == FindIterFrom(r, s, 1)

(***************************************************************************)
(* Python dicts: a function from the keys present to their values.         *)
(***************************************************************************)
EmptyDict == <<>>

\* a.update(b)
Update(a, b) == [k \in DOMAIN a \cup DOMAIN b |-> IF k \in DOMAIN b THEN b[k] ELSE a[k]]

\* d[k] = v
Put(d, k, v) == [x \in DOMAIN d \cup {k} |-> IF x = k THEN v ELSE d[x]]

\* bool(d.get(k)) for a numeric field: absent (None) and 0 are both false
Truthy(d, k) == k \in DOMAIN d /\ d[k] # 0

(***************************************************************************)
(* Unit conversion (src/scrapers.py:62-68).  A temperature is held in      *)
(* tenths of a degree: round(x, 1) of (f - 32) * 5 / 9.                    *)
(***************************************************************************)
\* the product rounded to the nearest centimeter
inches_to_cm_rounded(inches) == (inches * 254 + 50) \div 100

\* int(inches * 2.54): the double product, truncated.  The double 2.54 lies
\* less than 4 / 10^17 above 254/100, and the exact product is a multiple of
\* 1/50, so below 10^13 inches the truncation is that of the exact product.
inches_to_cm(inches) == (inches * 254) \div 100

fahrenheit_to_celsius(fahrenheit) == ((fahrenheit - 32) * 100 + 9) \div 18

\* the value of a number read with its unit: inches when the unit text
\* holds 'in' or '"'
unit_value(raw, unit) ==
    IF Contains(unit, "in") \/ Contains(unit, "\"") THEN inches_to_cm(raw) ELSE raw

\* extract_number(text): the first run of digits after removing commas;
\* <<>> for None and <<n>> for the number n
first_number(t) ==
    Let(Search(Grp(1, Plus(Ch(Digit))), t), LAMBDA m : IF m[1] THEN <<ToInt(GroupN(t, m, 1))>> ELSE <<>>)

extract_number(text) == IF text = "" THEN <<>> ELSE first_number(Remove(text, ","))

(***************************************************************************)
(* The patterns of parse_snow_report_generic (src/scrapers.py:170-202).    *)
(***************************************************************************)
Ws == Ch(Space)
Number == Grp(1, Plus(Ch(Digit)))
Sep == Plus(Ch({":"} \cup Space))
Unit == Words(<<"in", "inch", "\"", "cm">>)
Hours24 == Alt(<<Lit("24"), (Lit("twenty") \o Opt(Dot) \o Lit("four"))>>)
Hours48 == Alt(<<Lit("48"), (Lit("forty") \o Opt(Dot) \o Lit("eight"))>>)
Hr == Words(<<"hr", "hour", "h">>)

\* (\d+)\s*(?:in|inch|"|cm)
DepthToken == (Number \o Star(Ws) \o Unit)

base_depth_patterns == <<
    (Lit("base") \o Sep \o Number \o Star(Ws) \o Unit),
    (Words(<<"lower", "bottom">>) \o Sep \o Number \o Star(Ws) \o Unit),
    (Number \o Star(Ws) \o Unit \o Sep \o Lit("base")),
    (Lit("base") \o Plus(Ws) \o Lit("depth") \o Sep \o Number),
    (Lit("snow") \o Plus(Ws) \o Lit("depth") \o LazyStar(Dot) \o Lit("base") \o LazyStar(Dot) \o Number) >>

summit_depth_patterns == <<
    (Lit("summit") \o Sep \o Number \o Star(Ws) \o Unit),
    (Words(<<"top", "upper", "peak">>) \o Sep \o Number \o Star(Ws) \o Unit),
    (Number \o Star(Ws) \o Unit \o Sep \o Words(<<"summit", "top">>)),
    (Lit("summit") \o Plus(Ws) \o Lit("depth") \o Sep \o Number) >>

snow_24h_patterns == <<
    (Hours24 \o Star(Ws) \o Hr \o Sep \o Number),
    (Lit("overnight") \o Sep \o Number),
    (Lit("last") \o Plus(Ws) \o Lit("24") \o Sep \o Number),
    (Lit("new") \o Plus(Ws) \o Lit("snow") \o Sep \o Number),
    (Hours24 \o Star(Ws) \o Hr \o LazyStar(Dot) \o Number \o Star(Ws) \o Unit),
    (Number \o Star(Ws) \o Unit \o LazyStar(Dot) \o Words(<<"24", "overnight", "new">>)) >>

snow_48h_patterns == <<
    (Hours48 \o Star(Ws) \o Hr \o Sep \o Number),
    (Words(<<"2", "two">>) \o Plus(Ws) \o Lit("day") \o Sep \o Number),
    (Lit("last") \o Plus(Ws) \o Lit("48") \o Sep \o Number) >>

snow_7d_patterns == <<
    (Words(<<"7", "seven">>) \o Plus(Ws) \o Lit("day") \o Sep \o Number),
    (Lit("week") \o Sep \o Number),
    (Lit("last") \o Plus(Ws) \o Lit("week") \o Sep \o Number) >>

\* the patterns dict, in insertion order
patterns == <<
    [key |-> "base_depth", list |-> base_depth_patterns],
    [key |-> "summit_depth", list |-> summit_depth_patterns],
    [key |-> "24h_snow", list |-> snow_24h_patterns],
    [key |-> "48h_snow", list |-> snow_48h_patterns],
    [key |-> "7d_snow", list |-> snow_7d_patterns] >>

\* \d+\s*(?:in|inch|")
inches_pattern == (Plus(Ch(Digit)) \o Star(Ws) \o Words(<<"in", "inch", "\"">>))

\* (\d+)\s*(?:of|/)\s*(\d+)\s+(?:lift|chair)   and   ...(?:trail|run|piste)
Ratio(words) ==
    (Number \o Star(Ws) \o Words(<<"of", "/">>) \o Star(Ws) \o Grp(2, Plus(Ch(Digit))) \o Plus(Ws) \o Words(words))
lifts_pattern == Ratio(<<"lift", "chair">>)
runs_pattern == Ratio(<<"trail", "run", "piste">>)

TempEnd == Alt(<<Ws, Eos, Lit(".")>>)
temp_patterns == <<
    (Number \o Star(Ws) \o Opt(Lit("°")) \o Star(Ws) \o Ch({"f", "F"}) \o TempEnd),
    (Grp(1, (Opt(Lit("-")) \o Plus(Ch(Digit)))) \o Star(Ws) \o Opt(Lit("°")) \o Star(Ws) \o Ch({"c", "C"}) \o TempEnd),
    (Lit("temp") \o Opt(Lit("erature")) \o Sep \o Number) >>

(***************************************************************************)
(* A parsed page (BeautifulSoup): the meta elements, the values of the     *)
(* data-snow attributes and the body elements, each in document order.     *)
(* A body element has a tag, a class, a text and a parent element of its   *)
(* own (a <section> with a class of its own), and may carry the            *)
(* data-snow-depth attribute.                                              *)
(***************************************************************************)
RECURSIVE TextFrom(_, _)
TextFrom(nodes, i) == IF i > Len(nodes) THEN "" ELSE nodes[i].text \o TextFrom(nodes, i + 1)

\* soup.get_text()
get_text(soup) == TextFrom(soup.nodes, 1)

\* str(elem.parent)
ParentMarkup(elem) ==
    "<section class=\"" \o elem.parent \o "\"><" \o elem.tag \o " class=\"" \o elem.class \o "\""
        \o (IF elem.depth_attr THEN " data-snow-depth=\"\"" ELSE "") \o ">"
        \o elem.text \o "</" \o elem.tag \o "></section>"

\* the elements of seq that satisfy Test, in order
RECURSIVE Select(_, _, _)
Select(seq, Test(_), i) ==
    IF i > Len(seq) THEN <<>>
    ELSE (IF Test(seq[i]) THEN <<seq[i]>> ELSE <<>>) \o Select(seq, Test, i + 1)

(***************************************************************************)
(* Strategy 1: find_json_data (src/scrapers.py:70-94).  The JSON-LD        *)
(* blocks are only logged; the data-snow attributes set new_snow_24h_cm.   *)
(***************************************************************************)
RECURSIVE find_json_data_from(_, _, _)
find_json_data_from(attrs, i, data) ==
    IF i > Len(attrs) THEN data
    ELSE Let(extract_number(attrs[i]),
             LAMBDA snow_val : find_json_data_from(attrs, i + 1,
                                   IF snow_val # <<>> /\ snow_val[1] # 0
                                   THEN Put(data, "new_snow_24h_cm", snow_val[1]) ELSE data))

find_json_data(soup) == find_json_data_from(soup.data_snow, 1, EmptyDict)

(***************************************************************************)
(* Strategy 2: extract_from_meta_tags (src/scrapers.py:96-120).            *)
(***************************************************************************)
\* (\d+)\s*(in|inch|cm|")
meta_pattern == (Number \o Star(Ws) \o Grp(2, Words(<<"in", "inch", "cm", "\"">>)))

\* the body of `if numbers:` (lines 109-118)
meta_numbers(content, numbers, data) ==
    IF Contains(content, "base")
    THEN Put(data, "snow_depth_base_cm",
             unit_value(ToInt(GroupN(content, numbers, 1)), GroupN(content, numbers, 2)))
    ELSE IF Contains(content, "new") \/ Contains(content, "fresh")
         THEN Put(data, "new_snow_24h_cm",
                  unit_value(ToInt(GroupN(content, numbers, 1)), GroupN(content, numbers, 2)))
         ELSE data

\* the body of `for meta in meta_tags`, given content and name (lines 106-118)
meta_content(content, name, data) ==
    IF Contains(name, "snow") \/ Contains(content, "snow")
    THEN Let(Search(meta_pattern, content),
             LAMBDA numbers : IF numbers[1] THEN meta_numbers(content, numbers, data) ELSE data)
    ELSE data

meta_tag(meta, data) == meta_content(Lower(meta.content), Lower(meta.name \o meta.property), data)

RECURSIVE extract_from_meta_tags_from(_, _, _)
extract_from_meta_tags_from(metas, i, data) ==
    IF i > Len(metas) THEN data
    ELSE extract_from_meta_tags_from(metas, i + 1, meta_tag(metas[i], data))

extract_from_meta_tags(soup) == extract_from_meta_tags_from(soup.metas, 1, EmptyDict)

(***************************************************************************)
(* Strategy 3: elements with a snow-related class (src/scrapers.py:139-164)*)
(***************************************************************************)
snow_class_pattern == Words(<<"snow", "depth", "powder", "condition">>)

IsSnowContainer(elem) ==
    elem.tag \in {"div", "span", "p", "td"} /\ Search(snow_class_pattern, Lower(elem.class))[1]

\* one of the two `if re.search(label...)` blocks of the loop body
container_depth(text, label, field, data) ==
    IF Search(label, text)[1]
    THEN Let(Search(DepthToken, text),
             LAMBDA depth_match :
                 IF depth_match[1] /\ ~Truthy(data, field)
                 THEN Put(data, field, unit_value(ToInt(GroupN(text, depth_match, 1)),
                                                  Group0(text, depth_match)))
                 ELSE data)
    ELSE data

base_labels == Words(<<"base", "lower", "bottom">>)
summit_labels == Words(<<"summit", "top", "upper", "peak">>)

\* the body of `for container in snow_containers`, on the container's text
snow_container_text(text, data) ==
    container_depth(text, summit_labels, "snow_depth_summit_cm",
                    container_depth(text, base_labels, "snow_depth_base_cm", data))

snow_container(container, data) == snow_container_text(Lower(container.text), data)

RECURSIVE snow_containers_from(_, _, _)
snow_containers_from(containers, i, data) ==
    IF i > Len(containers) THEN data
    ELSE snow_containers_from(containers, i + 1, snow_container(containers[i], data))

(***************************************************************************)
(* Strategy 4: the pattern lists over the whole text                       *)
(* (src/scrapers.py:166-246).                                              *)
(***************************************************************************)
InchesWindow == 1000
MinDepth == 5
MaxDepth == 1000
MaxSnowfall == 300

\* is_inches: an inch token in the first 1000 characters (case-sensitive)
is_inches_of(text_content) == Search(inches_pattern, Prefix(text_content, InchesWindow))[1]

\* the value of one match after unit conversion (lines 215-220)
converted(value, full_match, is_inches) ==
    IF (Contains(full_match, "in") \/ Contains(full_match, "\""))
        \/ (is_inches /\ ~Contains(full_match, "cm"))
    THEN inches_to_cm(value) ELSE value

match_value(text, match, is_inches) ==
    converted(ToInt(GroupN(text, match, 1)), Group0(text, match), is_inches)

\* the sanity checks (lines 222-226): TRUE when the value is kept
sane(key, value) ==
    /\ key \in {"base_depth", "summit_depth"} => ~(value < MinDepth \/ value > MaxDepth)
    /\ key \in {"24h_snow", "48h_snow", "7d_snow"} => ~(value > MaxSnowfall)

\* Map to database fields (lines 228-238)
db_field(key) ==
    CASE key = "base_depth" -> "snow_depth_base_cm"
      [] key = "summit_depth" -> "snow_depth_summit_cm"
      [] key = "24h_snow" -> "new_snow_24h_cm"
      [] key = "48h_snow" -> "new_snow_48h_cm"
      [] key = "7d_snow" -> "new_snow_7d_cm"

\* `for match in matches`: the first match whose value passes the sanity
\* check is assigned and ends the loop
RECURSIVE matches_loop(_, _, _, _, _, _)
matches_loop(key, text, matches, j, is_inches, data) ==
    IF j > Len(matches) THEN data
    ELSE Let(match_value(text, matches[j], is_inches),
             LAMBDA value : IF sane(key, value) THEN Put(data, db_field(key), value)
                            ELSE matches_loop(key, text, matches, j + 1, is_inches, data))

\* data.get(key.replace('_', ''))
already_found(key, data) == Truthy(data, Remove(key, "_"))

\* `for pattern in pattern_list`, left by the break of line 245-246
RECURSIVE pattern_loop(_, _, _, _, _, _)
pattern_loop(key, list, p, text, is_inches, data) ==
    IF p > Len(list) THEN data
    ELSE Let(matches_loop(key, text, FindIter(list[p], text), 1, is_inches, data),
             LAMBDA after : IF already_found(key, after) THEN after
                            ELSE pattern_loop(key, list, p + 1, text, is_inches, after))

\* `for key, pattern_list in patterns.items()`
RECURSIVE keys_loop(_, _, _, _)
keys_loop(k, text, is_inches, data) ==
    IF k > Len(patterns) THEN data
    ELSE Let(IF already_found(patterns[k].key, data) THEN data
             ELSE pattern_loop(patterns[k].key, patterns[k].list, 1, text, is_inches, data),
             LAMBDA after : keys_loop(k + 1, text, is_inches, after))

(***************************************************************************)
(* Strategy 5 (lifts and runs) and strategy 6 (temperature)                *)
(* (src/scrapers.py:248-275).                                              *)
(***************************************************************************)
\* the open count assigned without its total
ratio_open_only(pattern, text, open, total, data) ==
    Let(Search(pattern, text),
        LAMBDA m : IF m[1] THEN Put(data, open, ToInt(GroupN(text, m, 1))) ELSE data)

\* lines 248-257: `N/M lifts` and `N/M runs|trails`, both counts at once
ratio(pattern, text, open, total, data) ==
    Let(Search(pattern, text),
        LAMBDA m : IF m[1]
                   THEN Put(Put(data, open, ToInt(GroupN(text, m, 1))), total, ToInt(GroupN(text, m, 2)))
                   ELSE data)

FahrenheitAbove == 50

\* the number over 50 taken as Fahrenheit only when no 'c' is in the match
set_temperature_unless_celsius(temp, matched, data) ==
    IF Contains(matched, "f") \/ (temp > FahrenheitAbove /\ ~Contains(matched, "c"))
    THEN Put(data, "temperature_base_c", fahrenheit_to_celsius(temp))
    ELSE Put(data, "temperature_base_c", temp * 10)

\* lines 269-274: Fahrenheit if 'f' is in the match or the number is over 50
set_temperature(temp, matched, data) ==
    IF Contains(matched, "f") \/ temp > FahrenheitAbove
    THEN Put(data, "temperature_base_c", fahrenheit_to_celsius(temp))
    ELSE Put(data, "temperature_base_c", temp * 10)

RECURSIVE temperature(_, _, _)
temperature(text_content, p, data) ==
    IF p > Len(temp_patterns) THEN data
    ELSE Let(Search(temp_patterns[p], text_content),
             LAMBDA temp_match :
                 IF temp_match[1]
                 THEN set_temperature(ToInt(GroupN(text_content, temp_match, 1)),
                                      Lower(Group0(text_content, temp_match)), data)
                 ELSE temperature(text_content, p + 1, data))

(***************************************************************************)
(* parse_snow_report_generic (src/scrapers.py:122-277)                     *)
(***************************************************************************)
\* strategies 1 to 3 (lines 126-164)
markup_strategies(soup, url, today) ==
    snow_containers_from(Select(soup.nodes, IsSnowContainer, 1), 1,
        Update(Update([scraped_url |-> url, scrape_date |-> today], find_json_data(soup)),
               extract_from_meta_tags(soup)))

\* strategies 4 to 6 (lines 166-275) on the text; `text` is the text
\* lower-cased, for the patterns the code matches with re.IGNORECASE
text_strategies(text_content, text, data3) ==
    Let(keys_loop(1, text, is_inches_of(text_content), data3), LAMBDA data4 :
    Let(ratio(lifts_pattern, text, "lifts_open", "lifts_total", data4), LAMBDA data5 :
    Let(ratio(runs_pattern, text, "runs_open", "runs_total", data5), LAMBDA data6 :
        temperature(text_content, 1, data6))))

parse_snow_report_generic(soup, url, today) ==
    Let(get_text(soup), LAMBDA text_content :
    Let(Lower(text_content), LAMBDA text :
        text_strategies(text_content, text, markup_strategies(soup, url, today))))

(***************************************************************************)
(* VailResortsScraper.scrape_resort after the fetch                        *)
(* (src/scrapers.py:331-367).                                              *)
(***************************************************************************)
\* the three depth_selectors, applied to div, span and p elements
depth_selectors == <<
    [class |-> (Lit("snow") \o Star(Dot) \o Lit("depth")), attr |-> FALSE],
    [class |-> (Lit("depth") \o Star(Dot) \o Lit("value")), attr |-> FALSE],
    [class |-> Eos, attr |-> TRUE] >>

Selected(selector, elem) ==
    /\ elem.tag \in {"div", "span", "p"}
    /\ IF selector.attr THEN elem.depth_attr ELSE Search(selector.class, Lower(elem.class))[1]

\* lines 352-357: base or summit, from the markup of the element's parent
vail_context(context, value_cm, data) ==
    IF Contains(context, "base") \/ Contains(context, "lower")
    THEN Put(data, "snow_depth_base_cm", value_cm)
    ELSE IF Contains(context, "summit") \/ Contains(context, "top") \/ Contains(context, "upper")
         THEN Put(data, "snow_depth_summit_cm", value_cm)
         ELSE data

\* the body of `for elem in elements` (lines 345-357)
vail_element(elem, data) ==
    Let(Search(Number, elem.text),
        LAMBDA numbers :
            IF numbers[1]
            THEN vail_context(Lower(ParentMarkup(elem)),
                              inches_to_cm(ToInt(GroupN(elem.text, numbers, 1))), data)
            ELSE data)

RECURSIVE vail_elements_from(_, _, _)
vail_elements_from(elements, i, data) ==
    IF i > Len(elements) THEN data
    ELSE vail_elements_from(elements, i + 1, vail_element(elements[i], data))

RECURSIVE vail_selectors_from(_, _, _)
vail_selectors_from(soup, k, data) ==
    IF k > Len(depth_selectors) THEN data
    ELSE vail_selectors_from(soup, k + 1,
             vail_elements_from(Select(soup.nodes, LAMBDA elem : Selected(depth_selectors[k], elem), 1),
                                1, data))

\* the specialized pass alone (lines 331-360)
vail_specific(soup, url, today) ==
    vail_selectors_from(soup, 1, [scraped_url |-> url, scrape_date |-> today])

\* `not data[k]` for a key of data: the URL is a string, the date is never
\* false, every other value is a number
Falsy(data, k) ==
    CASE k = "scraped_url" -> data[k] = ""
      [] k = "scrape_date" -> FALSE
      [] OTHER -> data[k] = 0

\* data.update({k: v for k, v in generic_data.items() if k not in data or not data[k]})
fill_from_generic(data, generic_data) ==
    [k \in DOMAIN data \cup DOMAIN generic_data |->
        IF k \in DOMAIN generic_data /\ (k \notin DOMAIN data \/ Falsy(data, k))
        THEN generic_data[k] ELSE data[k]]

\* the generic parser consulted whatever the specialized pass found
vail_parse_always(soup, url, today) ==
    fill_from_generic(vail_specific(soup, url, today), parse_snow_report_generic(soup, url, today))

\* lines 331-367: the specialized pass, then the fall-back to the generic parser
vail_parse(soup, url, today) ==
    Let(vail_specific(soup, url, today),
        LAMBDA data : IF ~Truthy(data, "snow_depth_base_cm")
                      THEN fill_from_generic(data, parse_snow_report_generic(soup, url, today))
                      ELSE data)

(***************************************************************************)
(* OnTheSnowScraper.scrape_resort after the fetch                          *)
(* (src/scraper_onthesnow.py:100-158).  A page is its snow-report stats    *)
(* and its terrain stats, each a label and a value.                        *)
(***************************************************************************)
\* lines 120-129: the field a label names
ots_label(label_text, cm, data) ==
    IF Contains(label_text, "base") /\ Contains(label_text, "depth")
    THEN Put(data, "snow_depth_base_cm", cm)
    ELSE IF Contains(label_text, "summit") \/ Contains(label_text, "top")
    THEN Put(data, "snow_depth_summit_cm", cm)
    ELSE IF Contains(label_text, "24") \/ Contains(label_text, "overnight")
    THEN Put(data, "new_snow_24h_cm", cm)
    ELSE IF Contains(label_text, "48")
    THEN Put(data, "new_snow_48h_cm", cm)
    ELSE IF Contains(label_text, "7") \/ Contains(label_text, "week")
    THEN Put(data, "new_snow_7d_cm", cm)
    ELSE data

\* the body of `for div in snow_data_divs` (lines 107-129)
ots_stat(stat, data) ==
    Let(Search((Number \o Lit("\"")), stat.value),
        LAMBDA inches_match :
            IF inches_match[1]
            THEN ots_label(Lower(stat.label), inches_to_cm(ToInt(GroupN(stat.value, inches_match, 1))), data)
            ELSE data)

\* lines 147-152: lifts, or trails and runs
ots_counts(label_text, open_count, total_count, data) ==
    IF Contains(label_text, "lift")
    THEN Put(Put(data, "lifts_open", open_count), "lifts_total", total_count)
    ELSE IF Contains(label_text, "trail") \/ Contains(label_text, "run")
         THEN Put(Put(data, "runs_open", open_count), "runs_total", total_count)
         ELSE data

\* the body of `for div in terrain_divs` (lines 134-152)
ots_terrain(stat, data) ==
    Let(Search((Number \o Star(Ws) \o Lit("/") \o Star(Ws) \o Grp(2, Plus(Ch(Digit)))), stat.value),
        LAMBDA match :
            IF match[1]
            THEN ots_counts(Lower(stat.label), ToInt(GroupN(stat.value, match, 1)),
                            ToInt(GroupN(stat.value, match, 2)), data)
            ELSE data)

RECURSIVE ots_fold(_, _, _, _)
ots_fold(Step(_, _), stats, i, data) ==
    IF i > Len(stats) THEN data ELSE ots_fold(Step, stats, i + 1, Step(stats[i], data))

\* the dict returned, or the empty dict where the code returns None
ots_parse(page) ==
    ots_fold(ots_terrain, page.terrain, 1, ots_fold(ots_stat, page.stats, 1, EmptyDict))

(***************************************************************************)
(* The pages the extractors are run on: every page of at most MaxParts     *)
(* parts taken from the parts below.                                       *)
(***************************************************************************)
MaxParts == 2

Today == "2025-01-15"
PageUrl == "https://resort.example/snow-report"

Meta(name, property, content) == [name |-> name, property |-> property, content |-> content]
Elem(tag, class, parent, text) ==
    [tag |-> tag, class |-> class, parent |-> parent, text |-> text, depth_attr |-> FALSE]

Scenario1Text == "Base Depth: 42in, Summit: 61in, 24hr Snowfall: 8in, 5/10 lifts open"
Scenario2Text == "Base: 50cm  New snow 24h: 400cm"

MetaPool == {
    Meta("description", "", "Snow base 40in"),
    Meta("", "og:description", "snow base 2000cm"),
    Meta("twitter:description", "", "12\" of fresh snow") }

AttrPool == {"400", "6"}

NodePool == {
    Elem("p", "", "report", Scenario1Text),
    Elem("p", "", "report", Scenario2Text),
    Elem("div", "snow-depth", "base-area", "Base 3 cm"),
    Elem("span", "snow-depth-value", "summit", "Summit 61 in"),
    Elem("p", "", "status", " 12/10 lifts open "),
    Elem("p", "", "status", " 0/10 lifts, 12/20 runs "),
    [Elem("div", "stat", "upper-mountain", " 0 ") EXCEPT !.depth_attr = TRUE],
    Elem("p", "", "weather", " 25 F ") }

SeqsUpTo(S, n) == UNION {[1..k -> S] : k \in 0..n}

ResortPages ==
    {d \in {[kind |-> "resort", metas |-> m, data_snow |-> a, nodes |-> n] :
                m \in SeqsUpTo(MetaPool, MaxParts), a \in SeqsUpTo(AttrPool, MaxParts),
                n \in SeqsUpTo(NodePool, MaxParts)} :
        Len(d.metas) + Len(d.data_snow) + Len(d.nodes) <= MaxParts}

Stat(label, value) == [label |-> label, value |-> value]

StatPool == {Stat("Base Depth", "42\""), Stat("24 Hour", "8\"")}
TerrainPool == {Stat("Lifts Open", "5/10"), Stat("Runs Open", "25 / 20")}

OnTheSnowPages ==
    {d \in {[kind |-> "onthesnow", stats |-> st, terrain |-> t] :
                st \in SeqsUpTo(StatPool, MaxParts), t \in SeqsUpTo(TerrainPool, MaxParts)} :
        Len(d.stats) + Len(d.terrain) <= MaxParts}

Pages == ResortPages \cup OnTheSnowPages

(***************************************************************************)
(* The batch runner and the per-resort orchestrator                        *)
(* (src/scrapers.py:279-313 and 370-403).                                  *)
(***************************************************************************)
MaxResorts == 2

\* a resort dict; a URL the dict does not hold (or holds as None) is ""
Resort(name, snow_report_url, website_url) ==
    [name |-> name, snow_report_url |-> snow_report_url, website_url |-> website_url]

Resorts == {
    Resort("Alta", "https://alta.example/snow-report", "https://alta.example/"),
    Resort("Alta", "https://alta.example/snow-report", ""),
    Resort("Snowbird", "", "https://snowbird.example/"),
    Resort("Alta", "", ""),
    Resort("Vail", "https://vail.example/snow-report", "https://vail.example/"),
    Resort("Vail", "", "") }

\* what a URL may serve when it is fetched
TextPage(text) ==
    [kind |-> "resort", metas |-> <<>>, data_snow |-> <<>>, nodes |-> <<Elem("p", "", "main", text)>>]

WebPages == {TextPage("12/20 runs"), TextPage("0/10 lifts"), TextPage("-5 C")}

vail_resorts == {"Vail", "Breckenridge", "Keystone", "Park City", "Heavenly", "Stowe", "Killington"}

\* the name compared without regard to case
get_scraper_for_resort_nocase(resort_name) ==
    IF Lower(resort_name) \in {Lower(name) : name \in vail_resorts}
    THEN "VailResortsScraper" ELSE "SnowDataScraper"

\* get_scraper_for_resort (lines 370-382): the class of the scraper returned
get_scraper_for_resort(resort_name) ==
    IF resort_name \in vail_resorts THEN "VailResortsScraper" ELSE "SnowDataScraper"

meaningful_fields ==
    {"snow_depth_base_cm", "snow_depth_summit_cm", "new_snow_24h_cm", "lifts_open", "runs_open"}

\* line 301: data and any(data.get(field) for field in meaningful_fields)
meaningful(data) == DOMAIN data # {} /\ \E field \in meaningful_fields : Truthy(data, field)

\* the operands taken in the other order
OrSecond(a, b) == IF b # "" THEN b ELSE a

\* a or b
Or(a, b) == IF a # "" THEN a ELSE b

\* the URLs the resorts hold
Urls == UNION {{r.snow_report_url, r.website_url} : r \in Resorts} \ {""}

\* what the two scrapers make of each page that may be served at each URL,
\* tabulated: parse_snow_report_generic(soup, url) and the part of
\* VailResortsScraper.scrape_resort that follows the fetch
parsed_generic == [soup \in WebPages, url \in Urls |-> parse_snow_report_generic(soup, url, Today)]

parsed_vail == [soup \in WebPages, url \in Urls |-> vail_parse(soup, url, Today)]

VARIABLES
    page,         \* the parsed page an extractor is run on
    extractor,    \* which extractor has run on it: "none" before
    record,       \* the dict that extractor returned
    resorts_list, \* the argument of scrape_all_resorts
    results,      \* its results dict
    resort_i,     \* the position in resorts_list of the resort in progress
    pc,           \* where the run is: "batch", "fetch", "sleep", "vail", "store", "delay", "done"
    urls_to_try,  \* of the scrape_resort call in progress
    url_i,        \* the position in urls_to_try of the next URL
    attempts,     \* the fetches of the scrape_resort call in progress, with what each gave
    state,        \* of that call: "PENDING", then "SUCCEEDED", "EXHAUSTED" or (Vail) "RETURNED"
    data,         \* the dict that call returned
    log,          \* every fetch, sleep and delay so far, in order
    db_resorts,   \* the rows of the database table resorts
    db_resorts_seq, \* the largest id the table resorts has given out
    db_snow_data, \* the rows of the database table snow_data
    db_snow_data_seq, \* the largest id the table snow_data has given out
    db_scraping_log, \* the rows of the database table scraping_log, in the order written
    db_call,      \* the last call of add_resort, add_snow_data or get_latest_snow_data, with what it returned
    resort_info_i, \* the position in the list of the resort collect_snow_data is storing
    success_count, \* of collect_snow_data
    fail_count,   \* of collect_snow_data
    should_run    \* of the scheduled job: its time has come and it has not run since

parse_vars == <<page, extractor, record>>
batch_vars == <<resorts_list, results, resort_i, pc, urls_to_try, url_i, attempts, state, data, log>>
db_vars == <<db_resorts, db_resorts_seq, db_snow_data, db_snow_data_seq, db_scraping_log, db_call>>
collect_vars == <<resort_info_i, success_count, fail_count>>
scheduler_vars == <<should_run>>
vars == <<page, extractor, record, resorts_list, results, resort_i, pc, urls_to_try, url_i, attempts, state, data, log,
          db_resorts, db_resorts_seq, db_snow_data, db_snow_data_seq, db_scraping_log, db_call,
          resort_info_i, success_count, fail_count, should_run>>

\* SkiResortDatabase.create_tables on a new file: empty tables
InitDb ==
    /\ db_resorts = {}
    /\ db_resorts_seq = 0
    /\ db_snow_data = {}
    /\ db_snow_data_seq = 0
    /\ db_scraping_log = <<>>
    /\ db_call = [op |-> "create_tables"]

\* collect_snow_data not called
InitCollectIdle ==
    /\ resort_info_i = 1
    /\ success_count = 0
    /\ fail_count = 0

\* no job scheduled
InitSchedulerIdle == should_run = FALSE

InitBatchIdle ==
    /\ resorts_list = <<>>
    /\ results = EmptyDict
    /\ resort_i = 1
    /\ pc = "idle"
    /\ urls_to_try = <<>>
    /\ url_i = 1
    /\ attempts = <<>>
    /\ state = "PENDING"
    /\ data = EmptyDict
    /\ log = <<>>

InitParseIdle ==
    /\ page = EmptyDict
    /\ extractor = "idle"
    /\ record = EmptyDict
    /\ InitDb
    /\ InitCollectIdle
    /\ InitSchedulerIdle

InitParse ==
    /\ page \in Pages
    /\ extractor = "none"
    /\ record = EmptyDict
    /\ InitBatchIdle
    /\ InitDb
    /\ InitCollectIdle
    /\ InitSchedulerIdle

\* SnowDataScraper.parse_snow_report_generic on the page
Generic ==
    /\ extractor = "none" /\ page.kind = "resort"
    /\ extractor' = "generic"
    /\ record' = parse_snow_report_generic(page, PageUrl, Today)
    /\ UNCHANGED <<page, batch_vars, db_vars, collect_vars, scheduler_vars>>

\* VailResortsScraper.scrape_resort on the page, once fetched
Vail ==
    /\ extractor = "none" /\ page.kind = "resort"
    /\ extractor' = "vail"
    /\ record' = vail_parse(page, PageUrl, Today)
    /\ UNCHANGED <<page, batch_vars, db_vars, collect_vars, scheduler_vars>>

\* OnTheSnowScraper.scrape_resort on the page, once fetched
OnTheSnow ==
    /\ extractor = "none" /\ page.kind = "onthesnow"
    /\ extractor' = "onthesnow"
    /\ record' = ots_parse(page)
    /\ UNCHANGED <<page, batch_vars, db_vars, collect_vars, scheduler_vars>>

NextParse == Generic \/ Vail \/ OnTheSnow

SpecParse == InitParse /\ [][NextParse]_vars

(***************************************************************************)
(* The unit conversion on its own: a number read with its unit, as the     *)
(* meta-tag strategy converts it (lines 109-113), and a number of inches   *)
(* as the OnTheSnow scraper converts it (scraper_onthesnow.py:115-118).    *)
(* page holds the number and the unit, record the centimeters.             *)
(***************************************************************************)
MaxInches == 120

Units == {"in", "inch", "\"", "cm"}

InitConvert ==
    /\ page \in [value : 0..MaxInches, unit : Units]
    /\ extractor = "none"
    /\ record = EmptyDict
    /\ InitBatchIdle
    /\ InitDb
    /\ InitCollectIdle
    /\ InitSchedulerIdle

\* value, unit = numbers[0]; if 'in' in unit or '"' in unit: inches_to_cm
ConvertWithUnit ==
    /\ extractor = "none"
    /\ extractor' = "meta"
    /\ record' = [cm |-> unit_value(page.value, page.unit)]
    /\ UNCHANGED <<page, batch_vars, db_vars, collect_vars, scheduler_vars>>

\* inches = int(inches_match.group(1)); cm = int(inches * 2.54)
ConvertInches ==
    /\ extractor = "none" /\ page.unit = "\""
    /\ extractor' = "onthesnow"
    /\ record' = [cm |-> inches_to_cm(page.value)]
    /\ UNCHANGED <<page, batch_vars, db_vars, collect_vars, scheduler_vars>>

NextConvert == ConvertWithUnit \/ ConvertInches

SpecConvert == InitConvert /\ [][NextConvert]_vars

(***************************************************************************)
(* parse_snow_report_generic run twice on one page and URL, by one         *)
(* scraper object.  Each run reads the calendar date of its own moment     *)
(* (date.today(), line 128): the second run's day is the first's or the    *)
(* next.  record holds the first run's dict and data the second's.         *)
(***************************************************************************)
Tomorrow == "2025-01-16"

\* the pages with at most one meta element, one data-snow attribute and
\* one body element
RerunPages ==
    {soup \in ResortPages : Len(soup.metas) <= 1 /\ Len(soup.data_snow) <= 1 /\ Len(soup.nodes) <= 1}

InitRerun ==
    /\ page \in RerunPages
    /\ extractor = "none"
    /\ record = EmptyDict
    /\ InitBatchIdle
    /\ InitDb
    /\ InitCollectIdle
    /\ InitSchedulerIdle

FirstRun ==
    /\ extractor = "none"
    /\ extractor' = "generic"
    /\ \E today \in {Today, Tomorrow} : record' = parse_snow_report_generic(page, PageUrl, today)
    /\ UNCHANGED <<page, batch_vars, db_vars, collect_vars, scheduler_vars>>

\* a second run that finds the page without its meta elements
SecondRunOnConsumedPage ==
    /\ extractor = "generic"
    /\ extractor' = "generic twice"
    /\ \E today \in {record.scrape_date, Tomorrow} :
         data' = parse_snow_report_generic([page EXCEPT !.metas = <<>>], PageUrl, today)
    /\ UNCHANGED <<page, record, resorts_list, results, resort_i, pc, urls_to_try, url_i, attempts, state, log, db_vars, collect_vars, scheduler_vars>>

SecondRun ==
    /\ extractor = "generic"
    /\ extractor' = "generic twice"
    /\ \E today \in {record.scrape_date, Tomorrow} : data' = parse_snow_report_generic(page, PageUrl, today)
    /\ UNCHANGED <<page, record, resorts_list, results, resort_i, pc, urls_to_try, url_i, attempts, state, log, db_vars, collect_vars, scheduler_vars>>

NextRerun == FirstRun \/ SecondRun

SpecRerun == InitRerun /\ [][NextRerun]_vars

(***************************************************************************)
(* parse_snow_report_generic on pages whose body elements all carry a      *)
(* snow-related class, with or without a meta element before them.         *)
(***************************************************************************)
ClassPool == {
    Elem("div", "snow-depth", "base-area", "Base 0 cm"),
    Elem("div", "snow-depth", "base-area", "Base 30 cm"),
    Elem("span", "snow-depth-value", "summit", "Summit 61 in"),
    Elem("td", "conditions", "summit", "Upper mountain 0\""),
    Elem("p", "powder-report", "report", "Base 12in, top 40in") }

ClassPages ==
    {[kind |-> "resort", metas |-> m, data_snow |-> <<>>, nodes |-> n] :
        m \in {<<>>, <<Meta("description", "", "Snow base 40in")>>}, n \in SeqsUpTo(ClassPool, MaxParts)}

InitClass ==
    /\ page \in ClassPages
    /\ extractor = "none"
    /\ record = EmptyDict
    /\ InitBatchIdle
    /\ InitDb
    /\ InitCollectIdle
    /\ InitSchedulerIdle

NextClass == Generic

SpecClass == InitClass /\ [][NextClass]_vars

(***************************************************************************)
(* parse_snow_report_generic on pages that are paragraphs of text: what    *)
(* the full-text strategies (lines 166-275) make of a measurement written  *)
(* with a unit, without one, and next to other words.                      *)
(***************************************************************************)
ReportTexts == {
    "Base: 50cm ", "Base: 42in ", "summit: 61\" ", "new snow: 8 ", "overnight: 10 cm ",
    "24h rain: 10cm ", " 5 in ", " 25 F ", " 60 C ", "-5 C ", "temp: 55 ", "temp: 20 " }

TextPages ==
    {[kind |-> "resort", metas |-> <<>>, data_snow |-> <<>>, nodes |-> n] :
        n \in SeqsUpTo({Elem("p", "", "report", text) : text \in ReportTexts}, MaxParts)}

InitText ==
    /\ page \in TextPages
    /\ extractor = "none"
    /\ record = EmptyDict
    /\ InitBatchIdle
    /\ InitDb
    /\ InitCollectIdle
    /\ InitSchedulerIdle

NextText == Generic

SpecText == InitText /\ [][NextText]_vars

(***************************************************************************)
(* scrape_all_resorts, step by step.                                       *)
(***************************************************************************)
Init ==
    /\ resorts_list \in SeqsUpTo(Resorts, MaxResorts)
    /\ results = EmptyDict
    /\ resort_i = 1
    /\ pc = "batch"
    /\ urls_to_try = <<>>
    /\ url_i = 1
    /\ attempts = <<>>
    /\ state = "PENDING"
    /\ data = EmptyDict
    /\ log = <<>>
    /\ InitParseIdle

resort == resorts_list[resort_i]

\* the website URL put before the snow-report URL
StartResortWebsiteFirst ==
    /\ pc = "batch" /\ resort_i <= Len(resorts_list)
    /\ attempts' = <<>>
    /\ state' = "PENDING"
    /\ url_i' = 1
    /\ IF get_scraper_for_resort(resort.name) = "VailResortsScraper"
       THEN pc' = "vail" /\ urls_to_try' = <<>>
       ELSE /\ pc' = "fetch"
            /\ urls_to_try' = (IF resort.website_url # "" THEN <<resort.website_url>> ELSE <<>>)
                                \o (IF resort.snow_report_url # "" THEN <<resort.snow_report_url>> ELSE <<>>)
    /\ UNCHANGED <<resorts_list, results, resort_i, data, log, parse_vars, db_vars, collect_vars, scheduler_vars>>

\* lines 391-395 and 284-291: the next resort gets its scraper, and
\* SnowDataScraper.scrape_resort builds urls_to_try
StartResort ==
    /\ pc = "batch" /\ resort_i <= Len(resorts_list)
    /\ attempts' = <<>>
    /\ state' = "PENDING"
    /\ url_i' = 1
    /\ IF get_scraper_for_resort(resort.name) = "VailResortsScraper"
       THEN pc' = "vail" /\ urls_to_try' = <<>>
       ELSE /\ pc' = "fetch"
            /\ urls_to_try' = (IF resort.snow_report_url # "" THEN <<resort.snow_report_url>> ELSE <<>>)
                                \o (IF resort.website_url # "" THEN <<resort.website_url>> ELSE <<>>)
    /\ UNCHANGED <<resorts_list, results, resort_i, data, log, parse_vars, db_vars, collect_vars, scheduler_vars>>

\* a failed fetch that gives the resort up
FetchFailsAborts ==
    /\ pc = "fetch" /\ url_i <= Len(urls_to_try)
    /\ attempts' = Append(attempts, [url |-> urls_to_try[url_i], ok |-> FALSE, data |-> EmptyDict])
    /\ log' = Append(log, <<"fetch", urls_to_try[url_i]>>)
    /\ url_i' = Len(urls_to_try) + 1
    /\ UNCHANGED <<resorts_list, results, resort_i, pc, urls_to_try, state, data, parse_vars, db_vars, collect_vars, scheduler_vars>>

\* lines 293-295 with get_page (37-45) returning None: on to the next URL
FetchFails ==
    /\ pc = "fetch" /\ url_i <= Len(urls_to_try)
    /\ attempts' = Append(attempts, [url |-> urls_to_try[url_i], ok |-> FALSE, data |-> EmptyDict])
    /\ log' = Append(log, <<"fetch", urls_to_try[url_i]>>)
    /\ url_i' = url_i + 1
    /\ UNCHANGED <<resorts_list, results, resort_i, pc, urls_to_try, state, data, parse_vars, db_vars, collect_vars, scheduler_vars>>

\* a successful fetch whose meaningful dict is kept without returning
FetchParsesNoReturn ==
    /\ pc = "fetch" /\ url_i <= Len(urls_to_try)
    /\ \E soup \in WebPages :
         attempts' = Append(attempts, [url |-> urls_to_try[url_i], ok |-> TRUE,
                                       data |-> parsed_generic[soup, urls_to_try[url_i]]])
    /\ LET parsed == attempts'[Len(attempts')].data
       IN IF meaningful(parsed) /\ url_i = Len(urls_to_try)
          THEN data' = parsed /\ state' = "SUCCEEDED" /\ pc' = "store"
          ELSE pc' = "sleep" /\ UNCHANGED <<data, state>>
    /\ log' = Append(log, <<"fetch", urls_to_try[url_i]>>)
    /\ UNCHANGED <<resorts_list, results, resort_i, urls_to_try, url_i, parse_vars, db_vars, collect_vars, scheduler_vars>>

\* a successful fetch whose dict is added to the previous attempt's
FetchParsesAccumulating ==
    /\ pc = "fetch" /\ url_i <= Len(urls_to_try)
    /\ \E soup \in WebPages :
         attempts' = Append(attempts, [url |-> urls_to_try[url_i], ok |-> TRUE,
                                       data |-> Update(IF attempts # <<>> THEN attempts[Len(attempts)].data
                                                       ELSE EmptyDict,
                                                       parsed_generic[soup, urls_to_try[url_i]])])
    /\ LET parsed == attempts'[Len(attempts')].data
       IN IF meaningful(parsed)
          THEN data' = parsed /\ state' = "SUCCEEDED" /\ pc' = "store"
          ELSE pc' = "sleep" /\ UNCHANGED <<data, state>>
    /\ log' = Append(log, <<"fetch", urls_to_try[url_i]>>)
    /\ UNCHANGED <<resorts_list, results, resort_i, urls_to_try, url_i, parse_vars, db_vars, collect_vars, scheduler_vars>>

\* lines 293-305 with get_page returning a page: parse it, return the dict
\* when it is meaningful, sleep otherwise
FetchParses ==
    /\ pc = "fetch" /\ url_i <= Len(urls_to_try)
    /\ \E soup \in WebPages :
         attempts' = Append(attempts, [url |-> urls_to_try[url_i], ok |-> TRUE,
                                       data |-> parsed_generic[soup, urls_to_try[url_i]]])
    /\ LET parsed == attempts'[Len(attempts')].data
       IN IF meaningful(parsed)
          THEN data' = parsed /\ state' = "SUCCEEDED" /\ pc' = "store"
          ELSE pc' = "sleep" /\ UNCHANGED <<data, state>>
    /\ log' = Append(log, <<"fetch", urls_to_try[url_i]>>)
    /\ UNCHANGED <<resorts_list, results, resort_i, urls_to_try, url_i, parse_vars, db_vars, collect_vars, scheduler_vars>>

\* line 305: time.sleep(1), then the next URL
Sleep ==
    /\ pc = "sleep"
    /\ log' = Append(log, <<"sleep", "1">>)
    /\ url_i' = url_i + 1
    /\ pc' = "fetch"
    /\ UNCHANGED <<resorts_list, results, resort_i, urls_to_try, attempts, state, data, parse_vars, db_vars, collect_vars, scheduler_vars>>

\* lines 307-313: every URL tried, the minimal dict is returned
Exhausted ==
    /\ pc = "fetch" /\ url_i > Len(urls_to_try)
    /\ data' = [scraped_url |-> Or(resort.snow_report_url, resort.website_url), scrape_date |-> Today]
    /\ state' = "EXHAUSTED"
    /\ pc' = "store"
    /\ UNCHANGED <<resorts_list, results, resort_i, urls_to_try, url_i, attempts, log, parse_vars, db_vars, collect_vars, scheduler_vars>>

\* VailResortsScraper.scrape_resort (lines 321-367), without a URL
VailNoUrl ==
    /\ pc = "vail" /\ Or(resort.snow_report_url, resort.website_url) = ""
    /\ data' = EmptyDict
    /\ state' = "RETURNED"
    /\ pc' = "store"
    /\ UNCHANGED <<resorts_list, results, resort_i, urls_to_try, url_i, attempts, log, parse_vars, db_vars, collect_vars, scheduler_vars>>

\* a failed fetch answered with the minimal dict of the generic scraper
VailScrapeMinimalOnFailure ==
    /\ pc = "vail" /\ Or(resort.snow_report_url, resort.website_url) # ""
    /\ LET url == Or(resort.snow_report_url, resort.website_url)
       IN /\ log' = Append(log, <<"fetch", url>>)
          /\ \/ /\ data' = [scraped_url |-> url, scrape_date |-> Today]
                /\ attempts' = Append(attempts, [url |-> url, ok |-> FALSE, data |-> EmptyDict])
             \/ \E soup \in WebPages :
                  /\ data' = parsed_vail[soup, url]
                  /\ attempts' = Append(attempts, [url |-> url, ok |-> TRUE, data |-> data'])
    /\ state' = "RETURNED"
    /\ pc' = "store"
    /\ UNCHANGED <<resorts_list, results, resort_i, urls_to_try, url_i, parse_vars, db_vars, collect_vars, scheduler_vars>>

\* VailResortsScraper.scrape_resort (lines 321-367), with a URL: one fetch
VailScrape ==
    /\ pc = "vail" /\ Or(resort.snow_report_url, resort.website_url) # ""
    /\ LET url == Or(resort.snow_report_url, resort.website_url)
       IN /\ log' = Append(log, <<"fetch", url>>)
          /\ \/ /\ data' = EmptyDict
                /\ attempts' = Append(attempts, [url |-> url, ok |-> FALSE, data |-> EmptyDict])
             \/ \E soup \in WebPages :
                  /\ data' = parsed_vail[soup, url]
                  /\ attempts' = Append(attempts, [url |-> url, ok |-> TRUE, data |-> data'])
    /\ state' = "RETURNED"
    /\ pc' = "store"
    /\ UNCHANGED <<resorts_list, results, resort_i, urls_to_try, url_i, parse_vars, db_vars, collect_vars, scheduler_vars>>

\* the dict returned put into a results dict of its own
StoreAlone ==
    /\ pc = "store"
    /\ results' = Put(EmptyDict, resort.name, data)
    /\ IF resort_i < Len(resorts_list)
       THEN pc' = "delay" /\ UNCHANGED resort_i
       ELSE pc' = "batch" /\ resort_i' = resort_i + 1
    /\ UNCHANGED <<resorts_list, urls_to_try, url_i, attempts, state, data, log, parse_vars, db_vars, collect_vars, scheduler_vars>>

\* the batch given up after a resort that yielded nothing
StoreAbortsOnFailure ==
    /\ pc = "store"
    /\ results' = Put(results, resort.name, data)
    /\ IF resort_i < Len(resorts_list) /\ meaningful(data)
       THEN pc' = "delay" /\ UNCHANGED resort_i
       ELSE pc' = "batch" /\ resort_i' = (IF meaningful(data) THEN resort_i + 1 ELSE Len(resorts_list) + 1)
    /\ UNCHANGED <<resorts_list, urls_to_try, url_i, attempts, state, data, log, parse_vars, db_vars, collect_vars, scheduler_vars>>

\* a delay after every resort, the last one included
StoreThenAlwaysDelay ==
    /\ pc = "store"
    /\ results' = Put(results, resort.name, data)
    /\ pc' = "delay"
    /\ UNCHANGED <<resorts_list, resort_i, urls_to_try, url_i, attempts, state, data, log, parse_vars, db_vars, collect_vars, scheduler_vars>>

\* lines 397-401: the dict returned is stored under the resort's name; a
\* delay follows unless this was the last resort
Store ==
    /\ pc = "store"
    /\ results' = Put(results, resort.name, data)
    /\ IF resort_i < Len(resorts_list)
       THEN pc' = "delay" /\ UNCHANGED resort_i
       ELSE pc' = "batch" /\ resort_i' = resort_i + 1
    /\ UNCHANGED <<resorts_list, urls_to_try, url_i, attempts, state, data, log, parse_vars, db_vars, collect_vars, scheduler_vars>>

\* line 401: time.sleep(delay)
Delay ==
    /\ pc = "delay"
    /\ log' = Append(log, <<"delay", resort.name>>)
    /\ resort_i' = resort_i + 1
    /\ pc' = "batch"
    /\ UNCHANGED <<resorts_list, results, urls_to_try, url_i, attempts, state, data, parse_vars, db_vars, collect_vars, scheduler_vars>>

\* line 403: return results
Return ==
    /\ pc = "batch" /\ resort_i > Len(resorts_list)
    /\ pc' = "done"
    /\ UNCHANGED <<resorts_list, results, resort_i, urls_to_try, url_i, attempts, state, data, log, parse_vars, db_vars, collect_vars, scheduler_vars>>

Next ==
    \/ StartResort \/ FetchFails \/ FetchParses \/ Sleep \/ Exhausted
    \/ VailNoUrl \/ VailScrape \/ Store \/ Delay \/ Return

Spec == Init /\ [][Next]_vars

\* Every step of the run ends by itself: a fetch returns or fails within
\* its timeout (get_page, lines 37-45), a sleep is finite, the rest is
\* straight-line code; so a run that can take a step takes one.
FairSpec == Spec /\ WF_vars(Next)

(***************************************************************************)
(* get_scraper_for_resort called on its own, a few times in a row: log     *)
(* holds each call's argument and the class of the scraper it returned.    *)
(***************************************************************************)
MaxCalls == 2

ResortNames ==
    vail_resorts \cup {"Alta", "Whistler Blackcomb", "vail", "Vail Resorts", "Park  City", ""}

InitResolve ==
    /\ resorts_list = <<>>
    /\ results = EmptyDict
    /\ resort_i = 1
    /\ pc = "resolve"
    /\ urls_to_try = <<>>
    /\ url_i = 1
    /\ attempts = <<>>
    /\ state = "PENDING"
    /\ data = EmptyDict
    /\ log = <<>>
    /\ InitParseIdle

\* one call get_scraper_for_resort(resort_name) (lines 370-382)
Resolve ==
    /\ pc = "resolve" /\ Len(log) < MaxCalls
    /\ \E resort_name \in ResortNames :
         log' = Append(log, <<resort_name, get_scraper_for_resort(resort_name)>>)
    /\ UNCHANGED <<resorts_list, results, resort_i, pc, urls_to_try, url_i, attempts, state, data, parse_vars, db_vars, collect_vars, scheduler_vars>>

NextResolve == Resolve

SpecResolve == InitResolve /\ [][NextResolve]_vars

(***************************************************************************)
(* SkiResortDatabase (src/database.py).  A table is the set of its rows;   *)
(* a column left NULL is a key the row does not hold.  Every method opens  *)
(* a connection of its own.  A date is the day of one month, so that the   *)
(* order of the ISO texts the table holds is the order of the numbers.     *)
(***************************************************************************)
MaxAdds == 3

\* the columns of snow_data that add_snow_data fills from its argument
snow_columns ==
    {"snow_depth_base_cm", "snow_depth_summit_cm", "new_snow_24h_cm", "new_snow_48h_cm",
     "new_snow_7d_cm", "snow_condition", "last_snowfall_date", "season_total_cm",
     "lifts_open", "lifts_total", "runs_open", "runs_total", "temperature_base_c",
     "temperature_summit_c", "weather_condition", "wind_speed_kmh", "visibility",
     "terrain_park_status", "additional_data"}

\* the arguments of add_resort: every resort has a name and a country
ResortRows == {[name |-> "Alta", country |-> "USA"], [name |-> "Alta", country |-> "United States"],
               [name |-> "Vail", country |-> "USA"]}

Days == {15, 16}

\* the arguments of add_snow_data, but for resort_id and date
SnowDicts == {
    [snow_depth_base_cm |-> 100, lifts_open |-> 5],
    [new_snow_24h_cm |-> 10, scraped_url |-> PageUrl] }

\* SELECT id FROM resorts WHERE name = ?
ids_named(name) == {row.id : row \in {r \in db_resorts : r.name = name}}

\* add_resort whose result is cursor.lastrowid, also when nothing was inserted
add_resort_lastrowid(resort_data) ==
    /\ db_resorts_seq' = db_resorts_seq + 1
    /\ IF ids_named(resort_data.name) = {}
       THEN /\ db_resorts' = db_resorts \cup {[id |-> db_resorts_seq + 1, name |-> resort_data.name,
                                                country |-> resort_data.country]}
            /\ db_call' = [op |-> "add_resort", arg |-> resort_data, result |-> db_resorts_seq + 1]
       ELSE /\ db_resorts' = db_resorts
            /\ db_call' = [op |-> "add_resort", arg |-> resort_data, result |-> 0]

\* add_resort (lines 122-154): INSERT OR IGNORE takes an id from the
\* sequence and inserts nothing when the name is there; lastrowid of the
\* new connection is then 0 and the id is read from the row of that name
add_resort(resort_data) ==
    /\ db_resorts_seq' = db_resorts_seq + 1
    /\ IF ids_named(resort_data.name) = {}
       THEN /\ db_resorts' = db_resorts \cup {[id |-> db_resorts_seq + 1, name |-> resort_data.name,
                                                country |-> resort_data.country]}
            /\ db_call' = [op |-> "add_resort", arg |-> resort_data, result |-> db_resorts_seq + 1]
       ELSE /\ db_resorts' = db_resorts
            /\ db_call' = [op |-> "add_resort", arg |-> resort_data,
                           result |-> CHOOSE id \in ids_named(resort_data.name) : TRUE]

\* the columns of the row add_snow_data writes: snow_data.get(column)
snow_row(snow_data) == [column \in DOMAIN snow_data \cap snow_columns |-> snow_data[column]]

\* add_snow_data that keeps the columns of the row it replaces where the new
\* dict has none
add_snow_data_merging(resort_id, date, snow_data) ==
    /\ db_snow_data_seq' = db_snow_data_seq + 1
    /\ db_snow_data' = {row \in db_snow_data : ~(row.resort_id = resort_id /\ row.date = date)}
                        \cup {[id |-> db_snow_data_seq + 1, resort_id |-> resort_id, date |-> date,
                               columns |-> IF \E row \in db_snow_data : row.resort_id = resort_id /\ row.date = date
                                           THEN Update((CHOOSE row \in db_snow_data :
                                                           row.resort_id = resort_id /\ row.date = date).columns,
                                                       snow_row(snow_data))
                                           ELSE snow_row(snow_data)]}
    /\ db_call' = [op |-> "add_snow_data", resort_id |-> resort_id, date |-> date,
                   arg |-> snow_data, result |-> TRUE]

\* add_snow_data (lines 156-205): INSERT OR REPLACE removes the row of the
\* same resort_id and date and inserts the new one under a new id
add_snow_data(resort_id, date, snow_data) ==
    /\ db_snow_data_seq' = db_snow_data_seq + 1
    /\ db_snow_data' = {row \in db_snow_data : ~(row.resort_id = resort_id /\ row.date = date)}
                        \cup {[id |-> db_snow_data_seq + 1, resort_id |-> resort_id, date |-> date,
                               columns |-> snow_row(snow_data)]}
    /\ db_call' = [op |-> "add_snow_data", resort_id |-> resort_id, date |-> date,
                   arg |-> snow_data, result |-> TRUE]

\* the rows of snow_data joined with the resort of that name
joined(name) ==
    {[name |-> r.name, country |-> r.country, id |-> row.id, resort_id |-> row.resort_id,
      date |-> row.date, columns |-> row.columns] :
        r \in {x \in db_resorts : x.name = name},
        row \in {y \in db_snow_data : \E x \in db_resorts : x.name = name /\ y.resort_id = x.id}}

\* get_latest_snow_data(resort_name) (lines 223-251) for a name: ORDER BY
\* s.date DESC LIMIT 1, as a list
get_latest_snow_data(resort_name) ==
    IF joined(resort_name) = {} THEN <<>>
    ELSE <<CHOOSE row \in joined(resort_name) : \A other \in joined(resort_name) : other.date <= row.date>>

db_idle == UNCHANGED <<parse_vars, batch_vars, collect_vars, scheduler_vars>>

AddResort ==
    /\ pc = "db" /\ db_resorts_seq + db_snow_data_seq < MaxAdds
    /\ \E resort_data \in ResortRows : add_resort(resort_data)
    /\ UNCHANGED <<db_snow_data, db_snow_data_seq, db_scraping_log>>
    /\ db_idle

\* add_snow_data with the id of a resort stored or not (the table has no
\* foreign key in force)
AddSnowData ==
    /\ pc = "db" /\ db_resorts_seq + db_snow_data_seq < MaxAdds
    /\ \E resort_id \in 1..2, date \in Days, snow_data \in SnowDicts :
         add_snow_data(resort_id, date, snow_data)
    /\ UNCHANGED <<db_resorts, db_resorts_seq, db_scraping_log>>
    /\ db_idle

GetLatestSnowData ==
    /\ pc = "db"
    /\ \E resort_name \in {r.name : r \in ResortRows} :
         db_call' = [op |-> "get_latest_snow_data", arg |-> resort_name,
                     result |-> get_latest_snow_data(resort_name)]
    /\ UNCHANGED <<db_resorts, db_resorts_seq, db_snow_data, db_snow_data_seq, db_scraping_log>>
    /\ db_idle

InitDbCalls ==
    /\ resorts_list = <<>>
    /\ results = EmptyDict
    /\ resort_i = 1
    /\ pc = "db"
    /\ urls_to_try = <<>>
    /\ url_i = 1
    /\ attempts = <<>>
    /\ state = "PENDING"
    /\ data = EmptyDict
    /\ log = <<>>
    /\ InitParseIdle

NextDb == AddResort \/ AddSnowData \/ GetLatestSnowData

SpecDb == InitDbCalls /\ [][NextDb]_vars

(***************************************************************************)
(* collect_snow_data (src/collect_data.py:43-121): scrape_all_resorts on   *)
(* the list, then one pass over the list that stores each resort's dict    *)
(* and logs the attempt.  The database was initialised from a list that    *)
(* held Alta and Vail but not Snowbird.  sqlite gives ids from 1, so 0     *)
(* stands for the None of a resort_id.                                     *)
(***************************************************************************)
InitCollect ==
    /\ resorts_list \in SeqsUpTo(Resorts, MaxResorts)
    /\ results = EmptyDict
    /\ resort_i = 1
    /\ pc = "batch"
    /\ urls_to_try = <<>>
    /\ url_i = 1
    /\ attempts = <<>>
    /\ state = "PENDING"
    /\ data = EmptyDict
    /\ log = <<>>
    /\ page = EmptyDict
    /\ extractor = "idle"
    /\ record = EmptyDict
    /\ db_resorts = {[id |-> 1, name |-> "Alta", country |-> "USA"], [id |-> 2, name |-> "Vail", country |-> "USA"]}
    /\ db_resorts_seq = Cardinality(db_resorts)
    /\ db_snow_data = {}
    /\ db_snow_data_seq = 0
    /\ db_scraping_log = <<>>
    /\ db_call = [op |-> "create_tables"]
    /\ InitCollectIdle
    /\ InitSchedulerIdle

resort_info == resorts_list[resort_info_i]

\* results.get(resort_name, {})
result_of(resort_name) == IF resort_name \in DOMAIN results THEN results[resort_name] ELSE EmptyDict

\* get_resort_id (src/database.py:253-260)
get_resort_id(name) == IF ids_named(name) = {} THEN 0 ELSE CHOOSE id \in ids_named(name) : TRUE

\* lines 90-94: any(k in snow_data for k in [...])
has_data(snow_data) == \E k \in meaningful_fields : k \in DOMAIN snow_data

\* lines 98-99: snow_data['resort_id'] = resort_id; snow_data['date'] = date.today()
stamped(snow_data, resort_id) == Update(snow_data, [resort_id |-> resort_id, date |-> Today])

\* log_scraping_attempt (src/database.py:207-221), but for the message
log_scraping_attempt(resort_id, status, data_points) ==
    db_scraping_log' = Append(db_scraping_log,
                              [resort_id |-> resort_id, status |-> status, data_points |-> data_points])

collecting == pc = "done" /\ resort_info_i <= Len(resorts_list)

\* lines 81-88: the resort is not in the database
CollectNotInDatabase ==
    /\ collecting /\ get_resort_id(resort_info.name) = 0
    /\ log_scraping_attempt(0, "FAILED", 0)
    /\ fail_count' = fail_count + 1
    /\ resort_info_i' = resort_info_i + 1
    /\ UNCHANGED <<success_count, db_resorts, db_resorts_seq, db_snow_data, db_snow_data_seq, db_call>>
    /\ UNCHANGED <<parse_vars, batch_vars, scheduler_vars>>

\* the dict without any of the five keys stored all the same
CollectNoDataSaved ==
    /\ collecting /\ get_resort_id(resort_info.name) # 0
    /\ ~has_data(result_of(resort_info.name))
    /\ add_snow_data(get_resort_id(resort_info.name), Today, result_of(resort_info.name))
    /\ log_scraping_attempt(get_resort_id(resort_info.name), "NO_DATA", 0)
    /\ fail_count' = fail_count + 1
    /\ resort_info_i' = resort_info_i + 1
    /\ UNCHANGED <<success_count, db_resorts, db_resorts_seq>>
    /\ UNCHANGED <<parse_vars, batch_vars, scheduler_vars>>

\* lines 109-113: none of the five keys is in the dict
CollectNoData ==
    /\ collecting /\ get_resort_id(resort_info.name) # 0
    /\ ~has_data(result_of(resort_info.name))
    /\ log_scraping_attempt(get_resort_id(resort_info.name), "NO_DATA", 0)
    /\ fail_count' = fail_count + 1
    /\ resort_info_i' = resort_info_i + 1
    /\ UNCHANGED <<success_count, db_resorts, db_resorts_seq, db_snow_data, db_snow_data_seq, db_call>>
    /\ UNCHANGED <<parse_vars, batch_vars, scheduler_vars>>

\* lines 96-104: the dict is stamped and stored
CollectSaved ==
    /\ collecting /\ get_resort_id(resort_info.name) # 0
    /\ has_data(result_of(resort_info.name))
    /\ results' = Put(results, resort_info.name,
                      stamped(result_of(resort_info.name), get_resort_id(resort_info.name)))
    /\ add_snow_data(get_resort_id(resort_info.name), Today, results'[resort_info.name])
    /\ log_scraping_attempt(get_resort_id(resort_info.name), "SUCCESS",
                            Cardinality(DOMAIN results'[resort_info.name]))
    /\ success_count' = success_count + 1
    /\ resort_info_i' = resort_info_i + 1
    /\ UNCHANGED <<fail_count, db_resorts, db_resorts_seq, parse_vars>>
    /\ UNCHANGED <<resorts_list, resort_i, pc, urls_to_try, url_i, attempts, state, data, log, scheduler_vars>>

\* lines 96-99 and 105-108: add_snow_data raises (a number sqlite cannot
\* bind, a database file another collector holds locked)
CollectSaveFails ==
    /\ collecting /\ get_resort_id(resort_info.name) # 0
    /\ has_data(result_of(resort_info.name))
    /\ results' = Put(results, resort_info.name,
                      stamped(result_of(resort_info.name), get_resort_id(resort_info.name)))
    /\ db_call' = [op |-> "add_snow_data", resort_id |-> get_resort_id(resort_info.name), date |-> Today,
                   arg |-> results'[resort_info.name], result |-> FALSE]
    /\ log_scraping_attempt(get_resort_id(resort_info.name), "FAILED", 0)
    /\ fail_count' = fail_count + 1
    /\ resort_info_i' = resort_info_i + 1
    /\ UNCHANGED <<success_count, db_resorts, db_resorts_seq, db_snow_data, db_snow_data_seq, parse_vars>>
    /\ UNCHANGED <<resorts_list, resort_i, pc, urls_to_try, url_i, attempts, state, data, log, scheduler_vars>>

\* lines 115-121: the summary
CollectSummary ==
    /\ pc = "done" /\ resort_info_i > Len(resorts_list)
    /\ pc' = "collected"
    /\ UNCHANGED <<resorts_list, results, resort_i, urls_to_try, url_i, attempts, state, data, log>>
    /\ UNCHANGED <<parse_vars, db_vars, collect_vars, scheduler_vars>>

NextCollect ==
    \/ Next
    \/ CollectNotInDatabase \/ CollectNoData \/ CollectSaved \/ CollectSaveFails \/ CollectSummary

SpecCollect == InitCollect /\ [][NextCollect]_vars

(***************************************************************************)
(* The scheduler (src/scheduler.py): run_scheduler registers                *)
(* daily_update_job for one time of the day and then loops, running the    *)
(* job when its time has come and sleeping a minute.  log holds what each  *)
(* run of the job came to and how the loop ended; what a collection does   *)
(* to the database is SpecCollect's matter and is left out here.           *)
(***************************************************************************)
MaxRuns == 4

\* the job runs of the log
job_runs == Cardinality({n \in 1..Len(log) : log[n][1] = "daily_update_job"})

\* lines 82-87: with --run-now the job has run once before the loop starts
InitScheduler ==
    /\ resorts_list = <<>>
    /\ results = EmptyDict
    /\ resort_i = 1
    /\ pc = "run_scheduler"
    /\ urls_to_try = <<>>
    /\ url_i = 1
    /\ attempts = <<>>
    /\ state = "PENDING"
    /\ data = EmptyDict
    /\ log \in {<<>>, <<<<"daily_update_job", "completed">>>>, <<<<"daily_update_job", "error logged">>>>}
    /\ page = EmptyDict
    /\ extractor = "idle"
    /\ record = EmptyDict
    /\ InitDb
    /\ InitCollectIdle
    /\ should_run = FALSE

scheduler_idle ==
    UNCHANGED <<resorts_list, results, resort_i, urls_to_try, url_i, attempts, state, data, parse_vars, db_vars,
                collect_vars>>

\* line 56: a sleep at whose end the time of the day of the job has come
TimeComes ==
    /\ pc = "run_scheduler" /\ ~should_run /\ job_runs < MaxRuns
    /\ should_run' = TRUE
    /\ UNCHANGED <<pc, log>>
    /\ scheduler_idle

\* the job run by run_pending, its exception leaving daily_update_job and
\* ending the loop
RunPendingRaises ==
    /\ pc = "run_scheduler" /\ should_run
    /\ log' = Append(log, <<"daily_update_job", "raised">>)
    /\ pc' = "stopped"
    /\ UNCHANGED should_run
    /\ scheduler_idle

\* line 55 and lines 32-35: run_pending runs the job, the collection
\* returns; the job is due again the next day
RunPendingCompletes ==
    /\ pc = "run_scheduler" /\ should_run
    /\ log' = Append(log, <<"daily_update_job", "completed">>)
    /\ should_run' = FALSE
    /\ UNCHANGED pc
    /\ scheduler_idle

\* line 55 and lines 32-37: run_pending runs the job, the collection raises
\* an Exception, which daily_update_job logs; the job is due again the next
\* day
RunPendingFails ==
    /\ pc = "run_scheduler" /\ should_run
    /\ log' = Append(log, <<"daily_update_job", "error logged">>)
    /\ should_run' = FALSE
    /\ UNCHANGED pc
    /\ scheduler_idle

\* lines 57-58: Ctrl-C, in the sleep or in the job
KeyboardInterrupt ==
    /\ pc = "run_scheduler"
    /\ log' = Append(log, <<"stopped", "KeyboardInterrupt">>)
    /\ pc' = "stopped"
    /\ UNCHANGED should_run
    /\ scheduler_idle

\* lines 59-60: an Exception of run_pending or of the sleep
SchedulerError ==
    /\ pc = "run_scheduler"
    /\ log' = Append(log, <<"stopped", "Exception">>)
    /\ pc' = "stopped"
    /\ UNCHANGED should_run
    /\ scheduler_idle

NextScheduler == TimeComes \/ RunPendingCompletes \/ RunPendingFails \/ KeyboardInterrupt \/ SchedulerError

\* The loop calls run_pending once a minute, and a collection ends by
\* itself (every fetch has a timeout): a job that is due runs, unless the
\* loop is stopped first.
SpecScheduler ==
    InitScheduler /\ [][NextScheduler]_vars /\ WF_vars(RunPendingCompletes \/ RunPendingFails)

(***************************************************************************)
(* The forecast adapter (src/scraper_gribstream.py): get_snow_forecast     *)
(* called on each dict of resorts_list in turn.  `attempts` holds the      *)
(* requests of the call in progress with what each gave, `log` the model   *)
(* of every request sent, `data` the dict returned (the empty dict for     *)
(* None) and `state` how the call ended: "RETURNED" or "RAISED".           *)
(* Coordinates are held in hundredths of a degree, temperatures in         *)
(* hundredths of a kelvin, the other quantities in whole units.            *)
(***************************************************************************)
\* d.get(k, default)
get_or(d, k, default) == IF k \in DOMAIN d THEN d[k] ELSE default

\* round(temp_k - 273.15, 1), in tenths of a degree.  The temperatures of
\* ForecastPoints are whole tenths away from 273.15, where the rounding
\* has nothing to cut.
kelvin_to_celsius(temp_k) == (temp_k - 27315) \div 10

RECURSIVE snow_accum_sum(_, _)
\* line 140: sum(p.get('snow_accum', 0) for p in data_points), from n on
snow_accum_sum(data_points, n) ==
    IF n > Len(data_points) THEN 0
    ELSE get_or(data_points[n], "snow_accum", 0) + snow_accum_sum(data_points, n + 1)

\* line 128
is_snow(latest) == get_or(latest, "is_snow", 0) > 0 \/ get_or(latest, "temp", 27300) < 27315

\* lines 115-117
snow_accum_of(latest, result) ==
    IF "snow_accum" \in DOMAIN latest THEN Put(result, "new_snow_24h_cm", latest["snow_accum"] * 10) ELSE result

\* lines 120-122
snow_depth_of(latest, result) ==
    IF "snow_depth" \in DOMAIN latest THEN Put(result, "snow_depth_base_cm", latest["snow_depth"] * 100) ELSE result

\* lines 125-130
precip_of(latest, result) ==
    IF "precip" \in DOMAIN latest /\ is_snow(latest)
    THEN Put(result, "new_snow_24h_cm", latest["precip"] * 10)
    ELSE result

\* lines 133-135
temp_of(latest, result) ==
    IF "temp" \in DOMAIN latest THEN Put(result, "temperature_base_c", kelvin_to_celsius(latest["temp"])) ELSE result

\* lines 138-141; no list of the model is longer than 48
snow_48h_of(data_points, result) ==
    IF Len(data_points) > 1 THEN Put(result, "new_snow_48h_cm", snow_accum_sum(data_points, 1) * 10) ELSE result

\* lines 108-141 for a list data_points that is not empty
gribstream_result(data_points) ==
    snow_48h_of(data_points,
        temp_of(data_points[Len(data_points)],
            precip_of(data_points[Len(data_points)],
                snow_depth_of(data_points[Len(data_points)],
                    snow_accum_of(data_points[Len(data_points)], EmptyDict)))))

\* _parse_gribstream_response (lines 93-151): None without a 'data' entry,
\* with an empty one, and when no field was found
parse_gribstream_response(api_data) ==
    IF "data" \notin DOMAIN api_data THEN EmptyDict
    ELSE IF api_data["data"] = <<>> THEN EmptyDict
    ELSE gribstream_result(api_data["data"])

\* the points of a time series
ForecastPoints ==
    { [snow_accum |-> 2, snow_depth |-> 1, temp |-> 26815],
      [precip |-> 3, temp |-> 28315],
      [precip |-> 3, is_snow |-> 1, temp |-> 28315],
      [snow_accum |-> 1],
      EmptyDict }

\* what response.json() gives: <<>> when the body is not JSON (it raises),
\* else <<api_data>>
ResponseBodies ==
    { <<>>, <<EmptyDict>>, <<[data |-> <<>>]>>, <<[data |-> <<EmptyDict>>]>> }
      \cup { <<[data |-> <<p>>]>> : p \in ForecastPoints }
      \cup { <<[data |-> <<[snow_accum |-> 1], p>>]>> : p \in ForecastPoints }

StatusCodes == {200, 204, 404}

\* what session.post gives: a response, or a requests.RequestException
\* (no connection, timeout after 30 s)
PostOutcomes ==
    { [raises |-> "RequestException"] } \cup { [status_code |-> s, json |-> b] : s \in StatusCodes, b \in ResponseBodies }

\* resort dicts: with both coordinates, without them, with one, with a
\* coordinate that is 0, without a name
ForecastResorts ==
    { [name |-> "Vail", latitude |-> 3964, longitude |-> -10637],
      [name |-> "Alta"],
      [name |-> "Snowbird", latitude |-> 4058],
      [name |-> "Meridian", latitude |-> 4277, longitude |-> 0],
      [latitude |-> 4059, longitude |-> -11158] }

InitForecast ==
    /\ resorts_list \in SeqsUpTo(ForecastResorts, MaxResorts) \ {<<>>}
    /\ results = EmptyDict
    /\ resort_i = 1
    /\ pc = "get_snow_forecast"
    /\ urls_to_try = <<>>
    /\ url_i = 1
    /\ attempts = <<>>
    /\ state = "PENDING"
    /\ data = EmptyDict
    /\ log = <<>>
    /\ InitParseIdle

forecast_idle == UNCHANGED <<resorts_list, results, urls_to_try, url_i, parse_vars, db_vars, collect_vars, scheduler_vars>>

\* the call returns None
ForecastReturnsNone ==
    /\ state' = "RETURNED"
    /\ data' = EmptyDict
    /\ pc' = "returned"

\* line 36: a dict without a name, the KeyError leaves the call
ForecastKeyError ==
    /\ pc = "get_snow_forecast"
    /\ "name" \notin DOMAIN resorts_list[resort_i]
    /\ state' = "RAISED"
    /\ pc' = "returned"
    /\ UNCHANGED <<resort_i, attempts, data, log>>
    /\ forecast_idle

\* lines 37-42: "if not lat or not lon"
ForecastNoCoordinates ==
    /\ pc = "get_snow_forecast"
    /\ "name" \in DOMAIN resorts_list[resort_i]
    /\ ~Truthy(resorts_list[resort_i], "latitude") \/ ~Truthy(resorts_list[resort_i], "longitude")
    /\ ForecastReturnsNone
    /\ UNCHANGED <<resort_i, attempts, log>>
    /\ forecast_idle

\* the request sent to a model and what comes of it
Post(model, outcome) ==
    /\ attempts' = Append(attempts, <<model, outcome>>)
    /\ log' = Append(log, model)

\* lines 44-75 and 86-88: the HRRR request; a RequestException returns
\* None, a status other than 200 leads to the GFS request
PostHrrr ==
    /\ pc = "get_snow_forecast"
    /\ "name" \in DOMAIN resorts_list[resort_i]
    /\ Truthy(resorts_list[resort_i], "latitude") /\ Truthy(resorts_list[resort_i], "longitude")
    /\ \E outcome \in PostOutcomes :
         /\ Post("hrrr", outcome)
         /\ IF "raises" \in DOMAIN outcome THEN ForecastReturnsNone
            ELSE /\ pc' = IF outcome.status_code # 200 THEN "gfs" ELSE "response"
                 /\ UNCHANGED <<state, data>>
    /\ UNCHANGED resort_i
    /\ forecast_idle

\* lines 76-78 and 86-88: the GFS request
PostGfs ==
    /\ pc = "gfs"
    /\ \E outcome \in PostOutcomes :
         /\ Post("gfs", outcome)
         /\ IF "raises" \in DOMAIN outcome THEN ForecastReturnsNone
            ELSE pc' = "response" /\ UNCHANGED <<state, data>>
    /\ UNCHANGED resort_i
    /\ forecast_idle

\* the response of the last request
response == attempts[Len(attempts)][2]

\* lines 80-91: raise_for_status raises for a status from 400 on, json()
\* for a body that is not JSON, and both exceptions return None; else the
\* parsed response is returned
ForecastResponse ==
    /\ pc = "response"
    /\ state' = "RETURNED"
    /\ pc' = "returned"
    /\ data' = IF response.status_code >= 400 \/ response.json = <<>> THEN EmptyDict
               ELSE parse_gribstream_response(response.json[1])
    /\ UNCHANGED <<resort_i, attempts, log>>
    /\ forecast_idle

\* the next call, after one that returned
NextForecastCall ==
    /\ pc = "returned" /\ state = "RETURNED" /\ resort_i < Len(resorts_list)
    /\ resort_i' = resort_i + 1
    /\ pc' = "get_snow_forecast"
    /\ attempts' = <<>>
    /\ state' = "PENDING"
    /\ data' = EmptyDict
    /\ UNCHANGED log
    /\ forecast_idle

NextForecast ==
    ForecastKeyError \/ ForecastNoCoordinates \/ PostHrrr \/ PostGfs \/ ForecastResponse \/ NextForecastCall

SpecForecast == InitForecast /\ [][NextForecast]_vars

(***************************************************************************)
(* The orchestrator (Spec).  `attempts` holds the fetches of the           *)
(* scrape_resort call in progress or last finished; urls_to_try is empty   *)
(* for the specialized scraper, which builds no candidate list.            *)
(***************************************************************************)
minimal_keys == {"scraped_url", "scrape_date"}

\* C1: for a resort with two candidate URLs, when the fetch of the first
\* succeeds and its record satisfies the meaningful-data predicate, the
\* orchestrator returns that record (SUCCEEDED) and the second candidate is
\* never fetched.
C1_ShortCircuit ==
    (Len(urls_to_try) = 2 /\ Len(attempts) >= 1
        /\ attempts[1].ok /\ meaningful(attempts[1].data))
    => /\ state = "SUCCEEDED"
       /\ data = attempts[1].data
       /\ Len(attempts) = 1
       /\ attempts[1].url = urls_to_try[1]
       /\ pc # "fetch" /\ pc # "sleep"

C1_Witness ==
    /\ pc = "store" /\ state = "SUCCEEDED"
    /\ Len(urls_to_try) = 2 /\ Len(attempts) = 1
    /\ attempts[1].ok /\ data = attempts[1].data

\* C2: a failed fetch of a candidate does not end the resort's run: the next
\* candidate is tried, and when it yields a meaningful record the run ends
\* in SUCCEEDED with that record, whose source URL is the second candidate.
C2_FetchFailureFallsThrough ==
    /\ (Len(urls_to_try) = 2 /\ Len(attempts) = 1 /\ ~attempts[1].ok)
       => (pc = "fetch" /\ url_i = 2 /\ state = "PENDING")
    /\ (Len(urls_to_try) = 2 /\ Len(attempts) = 2 /\ ~attempts[1].ok
            /\ attempts[2].ok /\ meaningful(attempts[2].data))
       => /\ state = "SUCCEEDED"
          /\ data = attempts[2].data
          /\ attempts[2].url = urls_to_try[2]
          /\ data.scraped_url = urls_to_try[2]

C2_Witness ==
    /\ pc = "store" /\ state = "SUCCEEDED"
    /\ Len(attempts) = 2 /\ ~attempts[1].ok /\ attempts[2].ok
    /\ data.scraped_url = resort.website_url
    /\ resort.snow_report_url # ""

\* every candidate was fetched and none gave a meaningful record
all_tried_in_vain ==
    /\ Len(attempts) = Len(urls_to_try)
    /\ \A k \in 1..Len(attempts) :
         attempts[k].url = urls_to_try[k] /\ ~(attempts[k].ok /\ meaningful(attempts[k].data))

\* C3 as stated: the EXHAUSTED record has no measurement field, a capture
\* date, and as its URL the last candidate URL that was tried.
C3_ExhaustedUrlIsLastTried ==
    (state = "EXHAUSTED" /\ urls_to_try # <<>>)
    => /\ DOMAIN data = minimal_keys
       /\ data.scrape_date = Today
       /\ data.scraped_url = attempts[Len(attempts)].url

\* C3: when every candidate URL has been tried without a meaningful result,
\* the record returned has no measurement field, a capture date, and as its
\* URL the first candidate: the snow-report URL when the resort has one,
\* the website URL otherwise (no URL when the resort has neither).
C3_ExhaustedRecord ==
    (state = "EXHAUSTED")
    => /\ all_tried_in_vain
       /\ DOMAIN data = minimal_keys
       /\ data.scrape_date = Today
       /\ data.scraped_url = (IF urls_to_try # <<>> THEN urls_to_try[1] ELSE "")
       /\ pc = "store" =>
            data.scraped_url = (IF resort.snow_report_url # "" THEN resort.snow_report_url
                                ELSE resort.website_url)

C3_Witness ==
    /\ pc = "store" /\ state = "EXHAUSTED"
    /\ Len(urls_to_try) = 2 /\ Len(attempts) = 2
    /\ data.scraped_url = resort.snow_report_url
    /\ data.scraped_url # attempts[2].url

\* C6 as stated: the orchestrator treats a fetched record as meaningful (and
\* returns it, SUCCEEDED) exactly when one of the five fields is present in
\* it, whatever the value.
C6_MeaningfulIffPresent ==
    \A k \in 1..Len(attempts) :
        (urls_to_try # <<>> /\ attempts[k].ok)
        => ((\E field \in meaningful_fields : field \in DOMAIN attempts[k].data)
            <=> (state = "SUCCEEDED" /\ data = attempts[k].data /\ k = Len(attempts)))

(***************************************************************************)
(* The extractors (SpecParse): `record` is what the extractor returned for *)
(* `page`.                                                                 *)
(***************************************************************************)
depth_fields == {"snow_depth_base_cm", "snow_depth_summit_cm"}
snowfall_fields == {"new_snow_24h_cm", "new_snow_48h_cm", "new_snow_7d_cm"}

\* the measurement fields of a record
measurement(rec) == [k \in DOMAIN rec \ minimal_keys |-> rec[k]]

\* a page that is one paragraph of text and nothing else
OnlyText(soup, text) ==
    /\ soup.kind = "resort" /\ soup.metas = <<>> /\ soup.data_snow = <<>>
    /\ Len(soup.nodes) = 1 /\ soup.nodes[1].class = "" /\ soup.nodes[1].text = text

\* C4 as stated: in every record the generic extractor returns, a depth
\* field that is present lies in [5, 1000] cm and a snowfall-window field
\* that is present is at most 300 cm, whichever strategy supplied it.
C4_SanityBounds ==
    extractor = "generic"
    => /\ \A f \in depth_fields \cap DOMAIN record : record[f] >= MinDepth /\ record[f] <= MaxDepth
       /\ \A f \in snowfall_fields \cap DOMAIN record : record[f] <= MaxSnowfall

\* C5 as stated: a field set by an earlier strategy is never overwritten by
\* a later one: what the data attributes set stays, and what the meta tags
\* set (the base depth in particular) stays through the class heuristic and
\* the text patterns.
C5_FirstStrategyWins ==
    extractor = "generic"
    => LET structured == find_json_data(page)
           meta == extract_from_meta_tags(page)
       IN /\ \A k \in DOMAIN structured : record[k] = structured[k]
          /\ \A k \in DOMAIN meta \ DOMAIN structured : record[k] = meta[k]

\* C7 as stated: the text of scenario 1 gives base depth 106, summit depth
\* 154, 24h new snow 20, lifts 5 of 10, and no other measurement field.
C7_Scenario1 ==
    (extractor = "generic" /\ OnlyText(page, Scenario1Text))
    => measurement(record) =
          [snow_depth_base_cm |-> 106, snow_depth_summit_cm |-> 154, new_snow_24h_cm |-> 20,
           lifts_open |-> 5, lifts_total |-> 10]

\* C8 as stated: the text of scenario 2 gives base depth 50 and no 24h
\* snowfall: 400 cm is dropped, not clamped, and no other number of the text
\* becomes the 24h snowfall.
C8_Scenario2 ==
    (extractor = "generic" /\ OnlyText(page, Scenario2Text))
    => /\ "snow_depth_base_cm" \in DOMAIN record /\ record.snow_depth_base_cm = 50
       /\ "new_snow_24h_cm" \notin DOMAIN record

pair_together(rec, open, total) == open \in DOMAIN rec <=> total \in DOMAIN rec
pair_ordered(rec, open, total) == {open, total} \subseteq DOMAIN rec => rec[open] <= rec[total]

\* C9 as stated: in every extracted record each open count is present
\* exactly when its total is, and is at most its total.
C9_PairsTogetherAndOrdered ==
    extractor \in {"generic", "vail", "onthesnow"}
    => /\ pair_together(record, "lifts_open", "lifts_total")
       /\ pair_together(record, "runs_open", "runs_total")
       /\ pair_ordered(record, "lifts_open", "lifts_total")
       /\ pair_ordered(record, "runs_open", "runs_total")

\* C9: in every extracted record lifts_open is present exactly when
\* lifts_total is, and runs_open exactly when runs_total is; the two counts
\* of a pair are the two numbers of one `N/M` match, in that order, and
\* nothing compares them.
C9_PairsTogether ==
    extractor \in {"generic", "vail", "onthesnow"}
    => /\ pair_together(record, "lifts_open", "lifts_total")
       /\ pair_together(record, "runs_open", "runs_total")

C9_Witness ==
    /\ extractor = "generic"
    /\ {"lifts_open", "lifts_total"} \subseteq DOMAIN record
    /\ record.lifts_open > record.lifts_total
    /\ "runs_open" \notin DOMAIN record /\ "runs_total" \notin DOMAIN record

\* C10 as stated: every field the specialized pass left undetermined and
\* the generic extractor determines on the same page is in the result with
\* the generic value, and every field the specialized pass determined keeps
\* its specialized value.
C10_EveryGapFilled ==
    extractor = "vail"
    => LET specific == vail_specific(page, PageUrl, Today)
           generic == parse_snow_report_generic(page, PageUrl, Today)
       IN /\ \A k \in DOMAIN generic \ DOMAIN specific :
                k \in DOMAIN record /\ record[k] = generic[k]
          /\ \A k \in DOMAIN specific : record[k] = specific[k]

\* C10: when the specialized pass determined a non-zero base depth, the
\* result is the specialized record alone; otherwise the generic extractor
\* is run on the same page, every field it determines that the specialized
\* pass left undetermined or zero has the generic value, and every other
\* field of the specialized pass keeps its specialized value.
C10_FallThrough ==
    extractor = "vail"
    => LET specific == vail_specific(page, PageUrl, Today)
           generic == parse_snow_report_generic(page, PageUrl, Today)
       IN IF "snow_depth_base_cm" \in DOMAIN specific /\ specific.snow_depth_base_cm # 0
          THEN record = specific
          ELSE /\ DOMAIN record = DOMAIN specific \cup DOMAIN generic
               /\ \A k \in DOMAIN generic :
                    (k \notin DOMAIN specific \/ Falsy(specific, k)) => record[k] = generic[k]
               /\ \A k \in DOMAIN specific :
                    (k \notin DOMAIN generic \/ ~Falsy(specific, k)) => record[k] = specific[k]

C10_Witness ==
    /\ extractor = "vail"
    /\ LET specific == vail_specific(page, PageUrl, Today)
       IN /\ "snow_depth_base_cm" \notin DOMAIN specific
          /\ "snow_depth_summit_cm" \in DOMAIN specific
          /\ record.snow_depth_summit_cm = specific.snow_depth_summit_cm
    /\ "lifts_open" \in DOMAIN record

(***************************************************************************)
(* The resolver (SpecResolve).                                             *)
(***************************************************************************)
\* C11: every call of get_scraper_for_resort returns a scraper; it is the
\* specialized one exactly for the seven names of the family, spelled as
\* registered, the generic one for every other name, and a call's result
\* does not depend on the calls made before it.
C11_Resolver ==
    \A k \in 1..Len(log) :
        /\ log[k][2] \in {"VailResortsScraper", "SnowDataScraper"}
        /\ log[k][2] = "VailResortsScraper"
             <=> log[k][1] \in {"Vail", "Breckenridge", "Keystone", "Park City",
                                "Heavenly", "Stowe", "Killington"}
        /\ \A j \in 1..Len(log) : log[j][1] = log[k][1] => log[j][2] = log[k][2]

C11_Witness ==
    /\ Len(log) = 2
    /\ log[1] = <<"vail", "SnowDataScraper">>
    /\ log[2] = <<"Park City", "VailResortsScraper">>

(***************************************************************************)
(* The batch runner (Spec, FairSpec).                                      *)
(***************************************************************************)
\* the scrape_resort call in progress has returned a dict without any
\* measurement: every fetch failed, or no page gave a meaningful dict
failed_run == pc = "store" /\ DOMAIN data \subseteq minimal_keys

\* the position of the resort whose dict was stored last
last_stored == IF pc = "delay" THEN resort_i ELSE resort_i - 1

first_url(r) == Or(r.snow_report_url, r.website_url)

fetched(url) == \E n \in 1..Len(log) : log[n] = <<"fetch", url>>

\* C12: a resort whose fetches all fail, or whose pages yield nothing, does
\* not stop the batch: its dict is stored under its name, and the run goes
\* on to its end, where every resort of the list, the later ones included,
\* has been scraped (its URL fetched) and has an entry.
C12_BatchIsolation ==
    /\ [](pc \in {"delay", "batch"} /\ last_stored >= 1
            => /\ resorts_list[last_stored].name \in DOMAIN results
               /\ results[resorts_list[last_stored].name] = data)
    /\ [](pc = "done"
            => \A j \in 1..Len(resorts_list) :
                  /\ resorts_list[j].name \in DOMAIN results
                  /\ first_url(resorts_list[j]) # "" => fetched(first_url(resorts_list[j])))
    /\ failed_run ~> (pc = "done")

C12_Witness ==
    /\ pc = "done" /\ Len(resorts_list) = 2
    /\ DOMAIN results[resorts_list[1].name] \subseteq minimal_keys
    /\ resorts_list[1].name # resorts_list[2].name
    /\ meaningful(results[resorts_list[2].name])
distinct_names ==
    \A j, k \in 1..Len(resorts_list) : resorts_list[j].name = resorts_list[k].name => j = k

names_upto(n) == {resorts_list[j].name : j \in 1..n}

\* the results dict changes only when a scrape_resort call has returned, and
\* then by the entry of the resort of that call, set to the dict returned
entry_is_returned ==
    [][/\ pc = "store" => results' = [name \in DOMAIN results \cup {resort.name} |->
                                        IF name = resort.name THEN data ELSE results[name]]
       /\ pc # "store" => results' = results]_vars

\* one entry per resort scraped so far, each from a page of its own resort
one_entry_each ==
    [](distinct_names
        => /\ DOMAIN results = names_upto(last_stored)
           /\ \A j \in 1..last_stored :
                "scraped_url" \in DOMAIN results[resorts_list[j].name]
                => results[resorts_list[j].name].scraped_url
                     \in {resorts_list[j].snow_report_url, resorts_list[j].website_url})

\* C13 as stated: after the batch, for distinct names, exactly one entry
\* per resort, the dict its own run returned, and this dict is a meaningful
\* record or the minimal record of an exhausted run.
C13_EntriesMeaningfulOrExhausted ==
    /\ entry_is_returned
    /\ one_entry_each
    /\ [](pc = "store" => meaningful(data) \/ DOMAIN data = minimal_keys)

\* C13: after the batch, for distinct names, exactly one entry per resort,
\* the dict its own scrape_resort call returned: from the generic scraper a
\* meaningful record or the minimal record; from the specialized scraper
\* the empty dict when the resort has no URL or its fetch failed, and else
\* what it made of the page, meaningful or not.
C13_BatchResult ==
    /\ entry_is_returned
    /\ one_entry_each
    /\ [](pc = "store" =>
            \/ state = "SUCCEEDED" /\ meaningful(data)
            \/ state = "EXHAUSTED" /\ DOMAIN data = minimal_keys
            \/ /\ state = "RETURNED" /\ resort.name \in vail_resorts
               /\ IF attempts # <<>> /\ attempts[1].ok
                  THEN data = attempts[1].data /\ data.scraped_url = first_url(resort)
                  ELSE data = EmptyDict)

C13_Witness ==
    /\ pc = "done" /\ Len(resorts_list) = 2 /\ distinct_names
    /\ resorts_list[1].name = "Vail" /\ results["Vail"] = EmptyDict
    /\ resorts_list[1].snow_report_url # ""
    /\ meaningful(results[resorts_list[2].name])

(***************************************************************************)
(* Pacing (Spec).  Between two resorts the log always holds a delay, so    *)
(* two fetches next to each other in the log belong to one resort's run.   *)
(***************************************************************************)
is_fetch(entry) == entry[1] = "fetch"

\* C14: within one resort's run a delay lies between every two consecutive
\* fetches, whatever the outcome of the earlier one: no two fetches are
\* next to each other in the log.
C14_DelayBetweenEveryTwoFetches ==
    \A n \in 1..(Len(log) - 1) : ~(is_fetch(log[n]) /\ is_fetch(log[n + 1]))

(***************************************************************************)
(* One record per attempt (Spec).                                          *)
(***************************************************************************)
\* the dicts parse_snow_report_generic can return for a page served at url
records_of(url) == {parsed_generic[soup, url] : soup \in WebPages}

\* C15: the dict returned by the orchestrator is the dict extracted from one
\* page served at the URL it names as its source, and nothing more: a field
\* found on an earlier candidate whose dict was not meaningful (a
\* temperature, a count of 0) is in it only when the later page has it too.
C15_FreshRecordPerAttempt ==
    (state = "SUCCEEDED")
    => /\ data = attempts[Len(attempts)].data
       /\ data.scraped_url = attempts[Len(attempts)].url
       /\ data \in records_of(data.scraped_url)

C15_Witness ==
    /\ state = "SUCCEEDED" /\ Len(attempts) = 2
    /\ attempts[1].ok /\ "temperature_base_c" \in DOMAIN attempts[1].data
    /\ "temperature_base_c" \notin DOMAIN data
    /\ "runs_open" \in DOMAIN data
    /\ data.scraped_url = urls_to_try[2]

C17_InchConversion ==
    (extractor # "none")
    => IF page.unit = "cm"
       THEN record.cm = page.value
       ELSE /\ 100 * record.cm <= 254 * page.value
            /\ 254 * page.value < 100 * (record.cm + 1)

C17_Witness ==
    /\ extractor = "meta" /\ page.unit = "inch"
    /\ page.value = 42 /\ record.cm = 106

(***************************************************************************)
(* The database (SpecDb).                                                  *)
(***************************************************************************)
\* C18: add_resort returns the id of the row of that name, new or already
\* stored, and no name has two rows; after add_snow_data for the id of a
\* stored resort, get_latest_snow_data(name) is one row of that resort: the
\* one of its latest day, which is the row just written unless a later day
\* is stored.
C18_DatabaseRoundTrip ==
    /\ \A r1, r2 \in db_resorts : r1.name = r2.name => r1 = r2
    /\ db_call.op = "add_resort"
        => /\ ids_named(db_call.arg.name) = {db_call.result}
           /\ db_call.result >= 1
    /\ (db_call.op = "add_snow_data" /\ \E r \in db_resorts : r.id = db_call.resort_id)
        => \A r \in {x \in db_resorts : x.id = db_call.resort_id} :
             LET latest == get_latest_snow_data(r.name)
             IN /\ Len(latest) = 1
                /\ latest[1].name = r.name /\ latest[1].resort_id = r.id
                /\ latest[1].date >= db_call.date
                /\ latest[1].date = db_call.date
                    => latest[1].columns = [c \in DOMAIN db_call.arg \cap snow_columns |-> db_call.arg[c]]

C18_Witness ==
    /\ db_call.op = "get_latest_snow_data" /\ db_call.arg = "Alta"
    /\ db_resorts_seq = 2 /\ Cardinality(db_resorts) = 1
    /\ Len(db_call.result) = 1
    /\ db_call.result[1].columns = [snow_depth_base_cm |-> 100, lifts_open |-> 5]

(***************************************************************************)
(* The text patterns (SpecParse).                                          *)
(***************************************************************************)
\* the value of the first match, from position j on, that passes the unit
\* conversion and the sanity check: <<value>>, or <<>> when there is none
RECURSIVE first_surviving_match(_, _, _, _, _)
first_surviving_match(key, text, matches, j, is_inches) ==
    IF j > Len(matches) THEN <<>>
    ELSE IF sane(key, match_value(text, matches[j], is_inches))
         THEN <<match_value(text, matches[j], is_inches)>>
         ELSE first_surviving_match(key, text, matches, j + 1, is_inches)

\* the same over the patterns of a field, in list order from pattern p on
RECURSIVE first_surviving(_, _, _, _, _)
first_surviving(key, list, p, text, is_inches) ==
    IF p > Len(list) THEN <<>>
    ELSE LET here == first_surviving_match(key, text, FindIter(list[p], text), 1, is_inches)
         IN IF here # <<>> THEN here ELSE first_surviving(key, list, p + 1, text, is_inches)

\* a page whose elements carry no class, no meta element and no data-snow
\* attribute: only the text patterns can set a depth or a snowfall
text_only(soup) ==
    /\ soup.metas = <<>> /\ soup.data_snow = <<>>
    /\ \A n \in 1..Len(soup.nodes) : soup.nodes[n].class = ""

\* C19: for each field of the text patterns, the value assigned is that of
\* the first match, patterns in list order and matches in document order,
\* that passes the unit conversion and the sanity check; no later match
\* and no later pattern changes it.
C19_FirstSurvivingValueWins ==
    (extractor = "generic" /\ text_only(page))
    => \A k \in 1..Len(patterns) :
          LET first == first_surviving(patterns[k].key, patterns[k].list, 1, Lower(get_text(page)),
                                       is_inches_of(get_text(page)))
          IN first # <<>>
             => /\ db_field(patterns[k].key) \in DOMAIN record
                /\ record[db_field(patterns[k].key)] = first[1]

(***************************************************************************)
(* Termination of the orchestrator (FairSpec).                             *)
(***************************************************************************)
\* a scrape_resort call of the generic scraper is in progress or has just
\* returned
generic_run == pc \in {"fetch", "sleep", "store"} /\ resort.name \notin vail_resorts

\* the candidates of a resort: its snow-report URL, then its website URL
candidates(r) ==
    (IF r.snow_report_url # "" THEN <<r.snow_report_url>> ELSE <<>>)
        \o (IF r.website_url # "" THEN <<r.website_url>> ELSE <<>>)

\* C20: a run of the generic orchestrator on a resort with zero, one or two
\* candidate URLs starts in PENDING, fetches the candidates in the order
\* snow-report URL, website URL, each at most once, ends in SUCCEEDED or in
\* EXHAUSTED whatever the fetches give, and fetches nothing once there.
C20_OrchestratorTerminates ==
    /\ [](generic_run
            => /\ state \in {"PENDING", "SUCCEEDED", "EXHAUSTED"}
               /\ pc \in {"fetch", "sleep"} => state = "PENDING"
               /\ pc = "store" => state \in {"SUCCEEDED", "EXHAUSTED"}
               /\ urls_to_try = candidates(resort)
               /\ Len(attempts) <= Len(urls_to_try)
               /\ \A k \in 1..Len(attempts) : attempts[k].url = urls_to_try[k])
    /\ [][/\ state # "PENDING" => (log' = log \/ ~is_fetch(log'[Len(log')]))
          /\ state \in {"SUCCEEDED", "EXHAUSTED"} => (state' = state \/ state' = "PENDING")]_vars
    /\ (generic_run /\ state = "PENDING") ~> (state \in {"SUCCEEDED", "EXHAUSTED"})

C20_Witness ==
    /\ generic_run /\ state = "EXHAUSTED"
    /\ Len(urls_to_try) = 2 /\ Len(attempts) = 2
    /\ ~attempts[1].ok /\ attempts[2].ok
    /\ attempts[1].url = resort.snow_report_url /\ attempts[2].url = resort.website_url

(***************************************************************************)
(* Batch pacing (Spec).                                                    *)
(***************************************************************************)
\* the inter-resort delays taken so far
delays == Cardinality({n \in 1..Len(log) : log[n][1] = "delay"})

\* the inter-resort delays before position n of the log
delays_before(n) == Cardinality({m \in 1..(n - 1) : log[m][1] = "delay"})

\* a step that fetches a URL
fetches == Len(log') = Len(log) + 1 /\ is_fetch(log'[Len(log')])

\* C21: the resorts are processed one after another in list order: a fetch
\* is made for the resort in progress only, after the dict of every earlier
\* resort has been stored and one delay per earlier resort has been taken;
\* the k-th delay follows the k-th resort; no delay follows the last resort,
\* so n resorts give n-1 delays and an empty list none.
C21_BatchPacing ==
    /\ [][fetches => /\ resort_i \in 1..Len(resorts_list)
                     /\ names_upto(resort_i - 1) \subseteq DOMAIN results
                     /\ delays = resort_i - 1
                     /\ log'[Len(log')][2] \in {resort.snow_report_url, resort.website_url}]_vars
    /\ [](\A n \in 1..Len(log) :
            /\ is_fetch(log[n]) => log[n][2] \in {resorts_list[delays_before(n) + 1].snow_report_url,
                                                  resorts_list[delays_before(n) + 1].website_url}
            /\ log[n][1] = "delay" => /\ log[n][2] = resorts_list[delays_before(n) + 1].name
                                      /\ delays_before(n) + 1 < Len(resorts_list))
    /\ [](delays = IF resort_i <= Len(resorts_list) THEN resort_i - 1
                   ELSE IF resorts_list = <<>> THEN 0 ELSE Len(resorts_list) - 1)
    /\ [](pc = "done" => delays = IF resorts_list = <<>> THEN 0 ELSE Len(resorts_list) - 1)

C21_Witness ==
    /\ pc = "done" /\ Len(resorts_list) = 2 /\ delays = 1
    /\ \E n \in 1..Len(log) : log[n][1] = "delay" /\ n > 1 /\ n < Len(log)
                               /\ is_fetch(log[n - 1]) /\ is_fetch(log[n + 1])

(***************************************************************************)
(* The meta-tag strategy (SpecParse).                                      *)
(***************************************************************************)
\* what the loop body of extract_from_meta_tags makes of one meta element
\* on its own
meta_alone(meta) == meta_tag(meta, EmptyDict)

\* the positions of the meta elements that qualify for a field
qualifying(soup, field) == {i \in 1..Len(soup.metas) : field \in DOMAIN meta_alone(soup.metas[i])}

\* the value of the first of them in document order
first_qualifying(soup, field) ==
    meta_alone(soup.metas[CHOOSE i \in qualifying(soup, field) :
                            \A j \in qualifying(soup, field) : i <= j])[field]

\* C22: when several meta elements qualify for the base depth, or for the
\* 24h new snow, the meta-tag strategy keeps the value of the first of them
\* in document order, and so does the record of a page that holds nothing
\* but meta elements.
C22_FirstMetaElementWins ==
    (extractor = "generic" /\ page.metas # <<>>)
    => \A field \in {"snow_depth_base_cm", "new_snow_24h_cm"} :
          qualifying(page, field) # {}
          => /\ extract_from_meta_tags(page)[field] = first_qualifying(page, field)
             /\ (page.data_snow = <<>> /\ page.nodes = <<>>)
                  => record[field] = first_qualifying(page, field)

(***************************************************************************)
(* The class-heuristic strategy (SpecClass).                               *)
(***************************************************************************)
\* the dict as strategies 1 and 2 leave it
before_containers(soup) ==
    Update(Update([scraped_url |-> PageUrl, scrape_date |-> Today], find_json_data(soup)),
           extract_from_meta_tags(soup))

\* the dict after the first k matching elements of the class-heuristic pass
after_containers(soup, k) ==
    snow_containers_from(SubSeq(Select(soup.nodes, IsSnowContainer, 1), 1, k), 1, before_containers(soup))

\* the k-th matching element has set the field
set_by_container(soup, k, field) ==
    /\ field \in DOMAIN after_containers(soup, k)
    /\ field \in DOMAIN after_containers(soup, k - 1)
         => after_containers(soup, k)[field] # after_containers(soup, k - 1)[field]

\* C23: once the class-heuristic pass has set the base depth, or the summit
\* depth, from one matching element, the field has that value at the end of
\* the pass, whatever the later matching elements hold, also when the value
\* is 0.
C23_FirstContainerWins ==
    extractor = "generic"
    => \A field \in depth_fields, k \in 1..Len(Select(page.nodes, IsSnowContainer, 1)) :
          set_by_container(page, k, field)
          => markup_strategies(page, PageUrl, Today)[field] = after_containers(page, k)[field]

(***************************************************************************)
(* The units of the full-text strategy (SpecText).                         *)
(***************************************************************************)
\* what follows the captured number inside the matched text
after_number(text, match) == SubSeq(text, match[4][2], match[3] - 1)

inch_marked(text, match) ==
    StartsAt((Star(Ws) \o Words(<<"in", "inch", "\"">>)), after_number(text, match), 1)

cm_marked(text, match) == StartsAt((Star(Ws) \o Lit("cm")), after_number(text, match), 1)

\* the centimeters of a captured value by the rule of the claim
by_unit_marker(text, match, is_inches) ==
    IF inch_marked(text, match) THEN inches_to_cm(ToInt(GroupN(text, match, 1)))
    ELSE IF cm_marked(text, match) THEN ToInt(GroupN(text, match, 1))
    ELSE IF is_inches THEN inches_to_cm(ToInt(GroupN(text, match, 1)))
    ELSE ToInt(GroupN(text, match, 1))

\* C24: in the full-text strategy the value of every match of every pattern
\* is converted from inches exactly when the matched text has an inch
\* marker after the number, or has no unit there and the document's
\* is-inches signal is set; with a cm marker after the number the value is
\* kept as it is.
C24_UnitOfMatchedText ==
    extractor = "generic"
    => \A k \in 1..Len(patterns) : \A p \in 1..Len(patterns[k].list) :
          LET text == Lower(get_text(page))
              matches == FindIter(patterns[k].list[p], text)
          IN \A j \in 1..Len(matches) :
                match_value(text, matches[j], is_inches_of(get_text(page)))
                  = by_unit_marker(text, matches[j], is_inches_of(get_text(page)))

(***************************************************************************)
(* The temperature (SpecText).                                             *)
(***************************************************************************)
\* the first of the temperature patterns that matches the text, 0 if none
first_temp_pattern(text_content) ==
    IF \E p \in 1..Len(temp_patterns) : Search(temp_patterns[p], text_content)[1]
    THEN CHOOSE p \in 1..Len(temp_patterns) :
            /\ Search(temp_patterns[p], text_content)[1]
            /\ \A q \in 1..(p - 1) : ~Search(temp_patterns[q], text_content)[1]
    ELSE 0

\* the number that pattern captured
captured_temp(text_content, p) == ToInt(GroupN(text_content, Search(temp_patterns[p], text_content), 1))

\* C25: the temperature comes from the first pattern that matches, in the
\* order Fahrenheit-marked, Celsius-marked, bare 'temp' label: a
\* Fahrenheit-marked value is converted, an unmarked value is converted
\* when it exceeds 50, a Celsius-marked value is kept as it is; with no
\* match the record has no temperature.
C25_TemperatureByMarker ==
    extractor = "generic"
    => LET text_content == get_text(page)
           p == first_temp_pattern(text_content)
       IN IF p = 0 THEN "temperature_base_c" \notin DOMAIN record
          ELSE /\ "temperature_base_c" \in DOMAIN record
               /\ record.temperature_base_c =
                    CASE p = 1 -> fahrenheit_to_celsius(captured_temp(text_content, p))
                      [] p = 2 -> captured_temp(text_content, p) * 10
                      [] p = 3 -> IF captured_temp(text_content, p) > FahrenheitAbove
                                  THEN fahrenheit_to_celsius(captured_temp(text_content, p))
                                  ELSE captured_temp(text_content, p) * 10

\* C25: the temperature comes from the first pattern that matches, in the
\* order Fahrenheit-marked, Celsius-marked, bare 'temp' label: a
\* Fahrenheit-marked value is converted, and so is every value over 50,
\* Celsius-marked or unmarked; a Celsius-marked or unmarked value of at
\* most 50 is kept as it is; with no match the record has no temperature.
C25_TemperatureOver50 ==
    extractor = "generic"
    => LET text_content == get_text(page)
           p == first_temp_pattern(text_content)
       IN IF p = 0 THEN "temperature_base_c" \notin DOMAIN record
          ELSE /\ "temperature_base_c" \in DOMAIN record
               /\ record.temperature_base_c =
                    IF p = 1 \/ captured_temp(text_content, p) > FahrenheitAbove
                    THEN fahrenheit_to_celsius(captured_temp(text_content, p))
                    ELSE captured_temp(text_content, p) * 10

C25_Witness ==
    /\ extractor = "generic"
    /\ get_text(page) = " 60 C temp: 20 "
    /\ record.temperature_base_c = 156

(***************************************************************************)
(* The table snow_data (SpecDb).                                           *)
(***************************************************************************)
\* the rows of snow_data of one resort and day
rows_of(table, resort_id, date) == {row \in table : row.resort_id = resort_id /\ row.date = date}

\* C26: the table snow_data never holds two rows of one resort and day;
\* each add_snow_data call leaves, for its resort and day, one row that
\* holds exactly the columns of its own dict (a column of the row it
\* replaced that the dict does not supply is gone, not merged), and leaves
\* the rows of every other resort and day as they were.
C26_OneRowPerResortAndDay ==
    /\ [](\A row, other \in db_snow_data :
            (row.resort_id = other.resort_id /\ row.date = other.date) => row = other)
    /\ [][db_snow_data' # db_snow_data \/ db_snow_data_seq' # db_snow_data_seq
            => /\ db_call'.op = "add_snow_data"
               /\ \E row \in db_snow_data' :
                    /\ rows_of(db_snow_data', db_call'.resort_id, db_call'.date) = {row}
                    /\ DOMAIN row.columns = DOMAIN db_call'.arg \cap snow_columns
                    /\ \A column \in DOMAIN row.columns : row.columns[column] = db_call'.arg[column]
               /\ \A row \in db_snow_data' \cup db_snow_data :
                    ~(row.resort_id = db_call'.resort_id /\ row.date = db_call'.date)
                    => (row \in db_snow_data <=> row \in db_snow_data')]_vars

\* three calls, the third for the resort and day of the second: the row of
\* the second is gone, the row of the first is as it was
C26_Witness ==
    /\ db_call.op = "add_snow_data" /\ db_snow_data_seq = 3
    /\ {row.id : row \in db_snow_data} = {1, 3}
    /\ \E row \in db_snow_data :
          /\ row.id = 3 /\ row.resort_id = db_call.resort_id /\ row.date = db_call.date
          /\ DOMAIN row.columns = {"new_snow_24h_cm"}
    /\ \E row \in db_snow_data : row.id = 1 /\ DOMAIN row.columns = {"snow_depth_base_cm", "lifts_open"}

(***************************************************************************)
(* The accounting of collect_snow_data (SpecCollect).                      *)
(***************************************************************************)
\* the resorts collect_snow_data has dealt with so far
collected == resort_info_i - 1

in_database(name) == \E row \in db_resorts : row.name = name

\* the result of the k-th resort of the list has none of the five keys
no_meaningful_key(k) ==
    \A field \in {"snow_depth_base_cm", "snow_depth_summit_cm", "new_snow_24h_cm", "lifts_open", "runs_open"} :
        field \notin DOMAIN results[resorts_list[k].name]

\* one log entry per resort dealt with, in list order, each with one of the
\* three statuses; every snow_data row belongs to a resort with a SUCCESS
\* entry; the two counts add up to the number of resorts dealt with
one_entry_per_resort ==
    /\ Len(db_scraping_log) = collected
    /\ \A k \in 1..Len(db_scraping_log) : db_scraping_log[k].status \in {"SUCCESS", "FAILED", "NO_DATA"}
    /\ \A row \in db_snow_data :
          \E k \in 1..Len(db_scraping_log) :
              /\ db_scraping_log[k].status = "SUCCESS"
              /\ db_scraping_log[k].resort_id = row.resort_id
              /\ in_database(resorts_list[k].name)
    /\ success_count = Cardinality({k \in 1..Len(db_scraping_log) : db_scraping_log[k].status = "SUCCESS"})
    /\ success_count + fail_count = collected
    /\ pc = "collected" => collected = Len(resorts_list)

\* C27 as stated: one log entry per resort, SUCCESS, FAILED or NO_DATA; a
\* snow_data row only for a resort logged SUCCESS; a resort whose result
\* has none of the five keys is logged NO_DATA and gets no row; the counts
\* add up to the number of resorts.
C27_NoKeyMeansNoData ==
    pc \in {"done", "collected"}
    => /\ one_entry_per_resort
       /\ \A k \in 1..collected :
             no_meaningful_key(k)
             => /\ db_scraping_log[k].status = "NO_DATA"
                /\ ~\E row \in db_snow_data : row.resort_id = db_scraping_log[k].resort_id

\* C27: one log entry per resort, SUCCESS, FAILED or NO_DATA; a snow_data
\* row only for a resort logged SUCCESS; a resort that is not in the
\* database is logged FAILED whatever its result; a resort of the database
\* whose result has none of the five keys is logged NO_DATA and gets no
\* row; the counts add up to the number of resorts.
C27_CollectionAccounting ==
    pc \in {"done", "collected"}
    => /\ one_entry_per_resort
       /\ \A k \in 1..collected :
             /\ ~in_database(resorts_list[k].name) => db_scraping_log[k].status = "FAILED"
             /\ (in_database(resorts_list[k].name) /\ no_meaningful_key(k))
                => /\ db_scraping_log[k].status = "NO_DATA"
                   /\ ~\E row \in db_snow_data : row.resort_id = db_scraping_log[k].resort_id

C27_Witness ==
    /\ pc = "collected" /\ Len(resorts_list) = 2
    /\ ~in_database(resorts_list[1].name) /\ no_meaningful_key(1)
    /\ db_scraping_log[1].status = "FAILED"
    /\ no_meaningful_key(2) /\ db_scraping_log[2].status = "NO_DATA"
    /\ db_snow_data = {} /\ fail_count = 2

(***************************************************************************)
(* The fetches of the specialized scraper (Spec).                          *)
(***************************************************************************)
\* the one URL the specialized scraper uses: "" when the resort has none
vail_url(r) == IF r.snow_report_url # "" THEN r.snow_report_url ELSE r.website_url

vail_returned == pc \in {"store", "delay"} /\ state = "RETURNED"

\* C28: a run of the specialized scraper is one step that makes at most one
\* fetch, of the snow-report URL if the resort has one and of the website
\* URL otherwise, and returns; nothing is fetched after it for that resort.
\* Without a URL, or with that one fetch failed, the dict returned is empty:
\* it has no source URL and no capture date.
C28_SpecializedFetchesOnce ==
    /\ [][pc = "vail" => /\ pc' = "store" /\ state' = "RETURNED"
                         /\ \/ log' = log /\ vail_url(resort) = ""
                            \/ log' = Append(log, <<"fetch", vail_url(resort)>>) /\ vail_url(resort) # ""]_vars
    /\ [][vail_returned => log' = log \/ ~is_fetch(log'[Len(log')])]_vars
    /\ [](vail_returned
            => /\ Len(attempts) <= 1
               /\ attempts = <<>> <=> vail_url(resort) = ""
               /\ attempts # <<>> => attempts[1].url = vail_url(resort)
               /\ (attempts = <<>> \/ ~attempts[1].ok)
                    => data = EmptyDict /\ DOMAIN data \cap {"scraped_url", "scrape_date"} = {})

\* the snow-report fetch failed and the website URL was not tried
C28_Witness ==
    /\ vail_returned /\ pc = "delay"
    /\ resort.snow_report_url # "" /\ resort.website_url # ""
    /\ Len(attempts) = 1 /\ ~attempts[1].ok /\ attempts[1].url = resort.snow_report_url
    /\ results[resort.name] = EmptyDict

(***************************************************************************)
(* The scheduler (SpecScheduler).                                          *)
(***************************************************************************)
job_ran == Len(log') = Len(log) + 1 /\ log'[Len(log')][1] = "daily_update_job"

last_job_failed == log # <<>> /\ log[Len(log)] = <<"daily_update_job", "error logged">>

\* C29: a run of the job, failed or not, leaves the loop running and the
\* job scheduled for its next time; the loop stops only by a keyboard
\* interrupt or an error of the loop itself, never by the job; and after a
\* failed run the job runs again when its time comes, unless the loop is
\* stopped first.
C29_SchedulerResilience ==
    /\ [][job_ran => pc' = "run_scheduler" /\ ~should_run']_vars
    /\ [][pc' # pc => /\ pc' = "stopped"
                      /\ log' \in {Append(log, <<"stopped", "KeyboardInterrupt">>),
                                   Append(log, <<"stopped", "Exception">>)}]_vars
    /\ \A n \in 1..(MaxRuns + 1) :
          (last_job_failed /\ Len(log) = n /\ should_run /\ pc = "run_scheduler")
            ~> (pc = "stopped" \/ (Len(log) = n + 1 /\ log[n + 1][1] = "daily_update_job"))

\* a run that failed, and then the run of the next day
C29_Witness ==
    /\ pc = "run_scheduler"
    /\ \E n \in 1..(Len(log) - 1) :
          /\ log[n] = <<"daily_update_job", "error logged">>
          /\ log[n + 1] = <<"daily_update_job", "completed">>
          /\ n > 1

(***************************************************************************)
(* The forecast adapter (SpecForecast).                                    *)
(***************************************************************************)
\* the resort dict of the call in progress
forecast_resort == resorts_list[resort_i]

\* it has a latitude and a longitude
has_coordinates == "latitude" \in DOMAIN forecast_resort /\ "longitude" \in DOMAIN forecast_resort

\* the HRRR request was answered, with a status other than 200
hrrr_status_not_200 ==
    /\ Len(attempts) >= 1
    /\ attempts[1][1] = "hrrr"
    /\ "status_code" \in DOMAIN attempts[1][2]
    /\ attempts[1][2].status_code # 200

\* a request raised, the last response has an error status or is not
\* JSON, or nothing could be parsed from it
request_or_parsing_failed ==
    /\ attempts # <<>>
    /\ \/ \E n \in 1..Len(attempts) : "raises" \in DOMAIN attempts[n][2]
       \/ attempts[Len(attempts)][2].status_code >= 400
       \/ attempts[Len(attempts)][2].json = <<>>
       \/ parse_gribstream_response(attempts[Len(attempts)][2].json[1]) = EmptyDict

\* C30: get_snow_forecast sends no request for a resort without a latitude
\* or without a longitude; for a resort with both it requests HRRR first,
\* and GFS only after an HRRR response whose status is not 200, so at most
\* two requests per resort; a request or parsing failure makes it return
\* None, and never raise.
C30_ForecastProtocol ==
    /\ ~has_coordinates => attempts = <<>>
    /\ has_coordinates /\ "name" \in DOMAIN forecast_resort /\ state = "RETURNED" =>
         attempts # <<>> /\ attempts[1][1] = "hrrr"
    /\ Len(attempts) >= 2 => attempts[2][1] = "gfs" /\ hrrr_status_not_200
    /\ Len(attempts) <= 2
    /\ state = "RAISED" => attempts = <<>>
    /\ state = "RETURNED" /\ request_or_parsing_failed => data = EmptyDict

====
